---- MODULE Spec2Model ----
(***************************************************************************)
(* Model of the investi library: the month generator, the instrument       *)
(* valuation engine (Investimento.simular_mes / simular_periodo) and the   *)
(* portfolio aggregator (Carteira.simular).                                *)
(*                                                                         *)
(* Numbers.  Python floats are modelled in fixed point:                    *)
(*   - money is an integer number of centavos;                             *)
(*   - every rate (taxa, ipca_padrao, cdi_padrao, monthly rates, index     *)
(*     values) is the float times Escala, truncated.                       *)
(* Dates are <<year, month, day>>; date comparison is lexicographic, as    *)
(* datetime.date compares.                                                 *)
(***************************************************************************)
EXTENDS Integers, Sequences, FiniteSets, TLC

VARIABLES
    gm,        \* last call of the two month generators: inputs and outputs
    invs,      \* the Investimento objects, by name
    carteira,  \* the Carteira: investimentos (names, insertion order), resultado
    ult,       \* the last operation called, its arguments and its outcome
    nops,      \* number of operations called so far
    motor      \* the MotorSimulacao: config, resultados, last value returned

vars == <<gm, invs, carteira, ult, nops, motor>>

(***************************************************************************)
(* Bounds of the model.                                                    *)
(***************************************************************************)
\* number of calendar years the month generator's inputs are drawn from
MaxAnos == 2
\* number of operations (simular_mes, simular_periodo, Carteira.simular)
\* in one behaviour
MaxOps == 2

Escala == 100 * 100

(***************************************************************************)
(* datetime.date                                                           *)
(***************************************************************************)
Date(ano, mes, dia) == <<ano, mes, dia>>

DataLT(a, b) ==
    \/ a[1] < b[1]
    \/ a[1] = b[1] /\ a[2] < b[2]
    \/ a[1] = b[1] /\ a[2] = b[2] /\ a[3] < b[3]

DataLE(a, b) == a = b \/ DataLT(a, b)

\* max(self.historico.keys()) on a non-empty set of dates
MaxData(S) == CHOOSE d \in S : \A e \in S : DataLE(e, d)

\* min(self.historico.keys())
MinData(S) == CHOOSE d \in S : \A e \in S : DataLE(d, e)

(***************************************************************************)
(* Carteira._gerar_meses                                                   *)
(***************************************************************************)
RECURSIVE CarteiraGerarMesesLoop(_, _, _, _)
CarteiraGerarMesesLoop(meses, ano_atual, mes_atual, data_fim) ==
    IF DataLT(Date(ano_atual, mes_atual, 1), data_fim)
    THEN LET mes1 == mes_atual + 1
             mes2 == IF mes1 > 12 THEN 1 ELSE mes1
             ano2 == IF mes1 > 12 THEN ano_atual + 1 ELSE ano_atual
         IN  CarteiraGerarMesesLoop(Append(meses, Date(ano2, mes2, 1)),
                                    ano2, mes2, data_fim)
    ELSE meses

Carteira_gerar_meses(data_inicio, data_fim) ==
    CarteiraGerarMesesLoop(<<Date(data_inicio[1], data_inicio[2], 1)>>,
                           data_inicio[1], data_inicio[2], data_fim)

(***************************************************************************)
(* Investimento._gerar_meses                                               *)
(***************************************************************************)
RECURSIVE InvestimentoGerarMesesLoop(_, _, _, _)
InvestimentoGerarMesesLoop(meses, ano_atual, mes_atual, data_fim) ==
    IF DataLT(Date(ano_atual, mes_atual, 1), data_fim)
    THEN LET mes1 == mes_atual + 1
             mes2 == IF mes1 > 12 THEN 1 ELSE mes1
             ano2 == IF mes1 > 12 THEN ano_atual + 1 ELSE ano_atual
         IN  InvestimentoGerarMesesLoop(Append(meses, Date(ano2, mes2, 1)),
                                        ano2, mes2, data_fim)
    ELSE meses

Investimento_gerar_meses(data_inicio, data_fim) ==
    InvestimentoGerarMesesLoop(<<Date(data_inicio[1], data_inicio[2], 1)>>,
                               data_inicio[1], data_inicio[2], data_fim)

(***************************************************************************)
(* Fixed-point stand-in for math.pow(fator, 1/12) - 1: the largest monthly *)
(* rate m (times Escala) whose 12-fold compounding does not exceed the     *)
(* annual factor `fator` (times Escala).  math.pow raises ValueError       *)
(* ("math domain error") for a negative base and a fractional exponent.    *)
(***************************************************************************)
RECURSIVE Composto(_, _)
Composto(m, n) ==
    IF n = 0 THEN Escala ELSE (Composto(m, n - 1) * (Escala + m)) \div Escala

MathPowFalha(fator) == fator < 0

RaizMensal(fator) ==
    CHOOSE m \in 0 .. ((fator - Escala) \div 12 + 1) :
        /\ Composto(m, 12) <= fator
        /\ Composto(m + 1, 12) > fator

\* the annual factors (1 + rate, times Escala) of the instruments modelled:
\* 1 + 12%, 1 + 6%, 1 + 110% and 1 + 0%
FatoresAnuais == {Escala + 1200, Escala + 600, Escala + 11000, Escala}

\* RaizMensal, tabulated once
TabelaMensal == [f \in FatoresAnuais |-> RaizMensal(f)]

MathPowMensal(fator) == TabelaMensal[fator]

(***************************************************************************)
(* Investimento: constructor                                               *)
(***************************************************************************)
Nenhum == <<>>                      \* Python None, where a date may stand
SemValor == "None"                  \* Python None, where a string may stand
Algum(x) == <<x>>                   \* an Optional[float] that is not None
DictVazio == [d \in {} |-> 0]       \* Python {}

\* Operador.ADITIVO / Operador.MULTIPLICADO
ADITIVO == "+"
MULTIPLICADO == "x"

\* taxa_cupom_semestral = 4.73 and taxa_cupom_ipca = 2.95, times Escala
taxa_cupom_semestral == 47300
taxa_cupom_ipca == 29500

Abs(x) == IF x < 0 THEN -x ELSE x

\* the checks of Investimento.__init__ without the range of the months
ConstrutorValido_SemFaixaDeMeses(cfg) ==
    /\ DataLT(cfg.data_inicio, cfg.data_fim)
    /\ ~(cfg.indexador \in {"IPCA", "CDI"} /\ cfg.taxa > 0 /\ cfg.operador = SemValor)
    /\ ~(cfg.operador # SemValor /\ cfg.taxa = 0 /\ cfg.indexador # "PREFIXADO")
    /\ Len(cfg.meses_pagamento_juros) = 2
    /\ Abs(cfg.meses_pagamento_juros[1] - cfg.meses_pagamento_juros[2]) = 6

\* the checks of Investimento.__init__ that raise ValueError
ConstrutorValido(cfg) ==
    /\ DataLT(cfg.data_inicio, cfg.data_fim)
    /\ ~(cfg.indexador \in {"IPCA", "CDI"} /\ cfg.taxa > 0 /\ cfg.operador = SemValor)
    /\ ~(cfg.operador # SemValor /\ cfg.taxa = 0 /\ cfg.indexador # "PREFIXADO")
    /\ Len(cfg.meses_pagamento_juros) = 2
    /\ Abs(cfg.meses_pagamento_juros[1] - cfg.meses_pagamento_juros[2]) = 6
    /\ cfg.meses_pagamento_juros[1] \in 1 .. 12
    /\ cfg.meses_pagamento_juros[2] \in 1 .. 12

\* Investimento._calcular_cupom_prefixado
CalcularCupomPrefixado(valor_principal) ==
    (valor_principal * (taxa_cupom_semestral \div 100)) \div Escala

\* the object Investimento.__init__ builds from valid parameters.
\* leituras is a history variable of the model: the pairs <<month valuated,
\* key of the snapshot read as its base>> of every accruing valuation.
Investimento(cfg) ==
    [nome                   |-> cfg.nome,
     valor_principal        |-> cfg.valor_principal,
     data_inicio            |-> cfg.data_inicio,
     data_fim               |-> cfg.data_fim,
     taxa                   |-> cfg.taxa,
     operador               |-> cfg.operador,
     indexador              |-> cfg.indexador,
     juros_semestrais       |-> cfg.juros_semestrais,
     ipca_padrao            |-> cfg.ipca_padrao,
     cdi_padrao             |-> cfg.cdi_padrao,
     meses_pagamento_juros  |-> cfg.meses_pagamento_juros,
     historico              |-> DictVazio,
     juros_acumulados       |-> 0,
     ultimo_pagamento_juros |-> Nenhum,
     valor_corrigido        |-> cfg.valor_principal,
     principal_inflacionado |-> cfg.valor_principal,
     valor_cupom_prefixado  |->
         IF cfg.indexador = "PREFIXADO" /\ cfg.juros_semestrais
         THEN CalcularCupomPrefixado(cfg.valor_principal)
         ELSE 0,
     classe                 |-> "Investimento",
     fonte_ipca             |-> DictVazio,
     leituras               |-> {}]

\* ipca.py line 53: self._ipca_padrao_mensal = 0.004
ipca_padrao_mensal == 40

\* the object InvestimentoIPCA.__init__ builds: the base constructor with
\* indexador 'IPCA' and operador '+', the defaults of the parameters it
\* does not pass, then the index source.  taxa is a decimal fraction here
\* (0.06 for 6%), times Escala.
InvestimentoIPCA(nome, valor_principal, data_inicio, data_fim, taxa, juros_semestrais, fonte_ipca) ==
    [Investimento([nome |-> nome, valor_principal |-> valor_principal,
                   data_inicio |-> data_inicio, data_fim |-> data_fim,
                   indexador |-> "IPCA", operador |-> ADITIVO, taxa |-> taxa,
                   ipca_padrao |-> 0, cdi_padrao |-> 0,
                   juros_semestrais |-> juros_semestrais,
                   meses_pagamento_juros |-> <<1, 7>>])
        EXCEPT !.classe = "InvestimentoIPCA", !.fonte_ipca = fonte_ipca]

\* the parameters InvestimentoIPCA.__init__ accepts (the base validations
\* with indexador 'IPCA' and operador '+')
ConstrutorIPCAValido(data_inicio, data_fim, taxa) ==
    DataLT(data_inicio, data_fim) /\ taxa # 0

\* the call Investimento(...): the object built, or ValueError raised and
\* no object
NovoInvestimento(cfg) ==
    IF ConstrutorValido(cfg)
    THEN [erro |-> FALSE, inv |-> Algum(Investimento(cfg))]
    ELSE [erro |-> TRUE, inv |-> Nenhum]

EhIPCAAditivo(self) == self.indexador = "IPCA" /\ self.operador = ADITIVO

(***************************************************************************)
(* Investimento: rates                                                     *)
(***************************************************************************)
\* InvestimentoIPCA.obter_valor_indexador
IPCA_ObterValorIndexador(self, data) ==
    IF data \in DOMAIN self.fonte_ipca THEN self.fonte_ipca[data]
    ELSE ipca_padrao_mensal

\* InvestimentoIPCA.obter_taxa_mensal
IPCA_ObterTaxaMensal(self, data) ==
    IPCA_ObterValorIndexador(self, data) + MathPowMensal(Escala + self.taxa)

\* definir_fonte_ipca keeping the entries of the mapping it replaces
DefinirFonteIPCA_Mescla(self, fonte_ipca) ==
    [self EXCEPT !.fonte_ipca =
        [d \in (DOMAIN self.fonte_ipca) \cup (DOMAIN fonte_ipca) |->
            IF d \in DOMAIN fonte_ipca THEN fonte_ipca[d] ELSE self.fonte_ipca[d]]]

\* InvestimentoIPCA.definir_fonte_ipca
DefinirFonteIPCA(self, fonte_ipca) == [self EXCEPT !.fonte_ipca = fonte_ipca]

\* Investimento.obter_valor_indexador, overridden by InvestimentoIPCA
ObterValorIndexador(self, data) ==
    IF self.classe = "InvestimentoIPCA" THEN IPCA_ObterValorIndexador(self, data)
    ELSE IF self.indexador = "IPCA" THEN MathPowMensal(Escala + self.ipca_padrao)
    ELSE IF self.indexador = "CDI" THEN MathPowMensal(Escala + self.cdi_padrao)
    ELSE 0

\* whether obter_taxa_mensal raises ValueError (math domain error)
ObterTaxaMensalFalha(self, data) ==
    IF self.classe = "InvestimentoIPCA" THEN MathPowFalha(Escala + self.taxa)
    ELSE /\ self.indexador = "PREFIXADO" \/ EhIPCAAditivo(self)
         /\ MathPowFalha(Escala + self.taxa \div 100)

\* Investimento.obter_taxa_mensal, overridden by InvestimentoIPCA
ObterTaxaMensal(self, data) ==
    IF self.classe = "InvestimentoIPCA" THEN IPCA_ObterTaxaMensal(self, data)
    ELSE IF self.indexador = "PREFIXADO"
    THEN MathPowMensal(Escala + self.taxa \div 100)
    ELSE IF EhIPCAAditivo(self)
    THEN LET taxa_real_mensal == MathPowMensal(Escala + self.taxa \div 100)
             inflacao_mensal == ObterValorIndexador(self, data)
         IN  ((Escala + inflacao_mensal) * (Escala + taxa_real_mensal)) \div Escala
                 - Escala
    ELSE IF self.indexador = "CDI" /\ self.operador = MULTIPLICADO
    THEN LET cdi_mensal == ObterValorIndexador(self, data)
         IN  (cdi_mensal * (self.taxa \div 100)) \div Escala
    ELSE 0

\* calcular_valor_cupom with the default case for every instrument that is
\* not fixed-rate: the attribute self.juros_acumulados
CalcularValorCupom_SoJurosAcumulados(self, data) ==
    IF self.indexador = "PREFIXADO" THEN self.valor_cupom_prefixado
    ELSE self.juros_acumulados

\* Investimento.calcular_valor_cupom.  The default case returns the attribute
\* self.juros_acumulados, which simular_mes never assigns (it accumulates in
\* a local variable of the same name).
CalcularValorCupom(self, data) ==
    IF self.indexador = "PREFIXADO" THEN self.valor_cupom_prefixado
    ELSE IF EhIPCAAditivo(self)
    THEN (self.principal_inflacionado * (taxa_cupom_ipca \div 100)) \div Escala
    ELSE self.juros_acumulados

\* _eh_mes_pagamento_juros without the maturity month
EhMesPagamentoJuros_SemVencimento(self, data) ==
    IF ~self.juros_semestrais THEN FALSE
    ELSE \E k \in 1 .. Len(self.meses_pagamento_juros) :
             data[2] = self.meses_pagamento_juros[k]

\* Investimento._eh_mes_pagamento_juros
EhMesPagamentoJuros(self, data) ==
    IF ~self.juros_semestrais THEN FALSE
    ELSE IF data[1] = self.data_fim[1] /\ data[2] = self.data_fim[2] THEN TRUE
    ELSE \E k \in 1 .. Len(self.meses_pagamento_juros) :
             data[2] = self.meses_pagamento_juros[k]

(***************************************************************************)
(* Investimento.simular_mes                                                *)
(*                                                                         *)
(* The operators return [inv |-> the object after the call,                *)
(* erro |-> whether ValueError was raised, resultado |-> the               *)
(* ResultadoMensal returned (Nenhum when an error was raised)].            *)
(***************************************************************************)
ResultadoMensal(data, valor, valor_principal, juros, juros_acumulados, indexador, taxa_mensal, juros_pagos, valor_juros_pagos, valor_corrigido) ==
    [data              |-> data,
     valor             |-> valor,
     valor_principal   |-> valor_principal,
     juros             |-> juros,
     juros_acumulados  |-> juros_acumulados,
     indexador         |-> indexador,
     taxa_mensal       |-> taxa_mensal,
     juros_pagos       |-> juros_pagos,
     valor_juros_pagos |-> valor_juros_pagos,
     valor_corrigido   |-> valor_corrigido]

\* d[k] = v on a Python dict
DictSet(d, k, v) == [x \in (DOMAIN d) \cup {k} |-> IF x = k THEN v ELSE d[x]]

EhVencimento(self, data) ==
    data[1] = self.data_fim[1] /\ data[2] = self.data_fim[2]

\* line 348: a coupon is due
PagaCupom(self, data) ==
    self.juros_semestrais /\ EhMesPagamentoJuros(self, data)
        /\ data # self.data_inicio

\* line 384: maturity of an instrument without semiannual coupons
PagaTudoNoVencimento(self, data) ==
    ~PagaCupom(self, data) /\ EhVencimento(self, data) /\ ~self.juros_semestrais

\* lines 353-362 paying the IPCA+ principal without its correction
ValorPagoCupomVencimento_PrincipalNominal(self, data, juros_acumulados) ==
    IF self.indexador = "PREFIXADO"
    THEN self.valor_principal + self.valor_cupom_prefixado
    ELSE IF EhIPCAAditivo(self)
    THEN self.valor_principal + CalcularValorCupom(self, data)
    ELSE self.valor_principal + juros_acumulados

\* lines 353-362: the amount paid when a coupon is due in the maturity month
ValorPagoCupomVencimento(self, data, juros_acumulados) ==
    IF self.indexador = "PREFIXADO"
    THEN self.valor_principal + self.valor_cupom_prefixado
    ELSE IF EhIPCAAditivo(self)
    THEN self.principal_inflacionado + CalcularValorCupom(self, data)
    ELSE self.valor_principal + juros_acumulados

\* lines 385-389: the amount paid at maturity without semiannual coupons
ValorPagoVencimento(self, valor_atual, juros_acumulados) ==
    IF EhIPCAAditivo(self)
    THEN self.principal_inflacionado + juros_acumulados
    ELSE valor_atual

\* lines 368-380 resetting every kind to the original principal
ValorAposCupom_PrincipalNominal(self) == self.valor_principal

\* lines 368-380: the running value after an interim coupon
ValorAposCupom(self) ==
    IF EhIPCAAditivo(self) THEN self.principal_inflacionado
    ELSE self.valor_principal

\* base.py lines 343-410: coupon or maturity payout, then the snapshot is
\* built and stored.  valor_atual, juros_mes, juros_acumulados, taxa_mensal
\* are the locals computed by the first half of simular_mes.
PagarERegistrar(self, data, valor_atual, juros_mes, juros_acumulados, taxa_mensal) ==
    LET eh_vencimento == EhVencimento(self, data)
        cupom == PagaCupom(self, data)
        final == PagaTudoNoVencimento(self, data)
        juros_pagos == cupom \/ final
        valor_juros_pagos ==
            IF cupom /\ eh_vencimento
            THEN ValorPagoCupomVencimento(self, data, juros_acumulados)
            ELSE IF cupom THEN CalcularValorCupom(self, data)
            ELSE IF final
            THEN ValorPagoVencimento(self, valor_atual, juros_acumulados)
            ELSE 0
        valor_final ==
            IF (cupom /\ eh_vencimento) \/ final THEN 0
            ELSE IF cupom THEN ValorAposCupom(self)
            ELSE valor_atual
        juros_acumulados_final ==
            IF (cupom /\ ~eh_vencimento) \/ final THEN 0 ELSE juros_acumulados
        resultado ==
            ResultadoMensal(data, valor_final, self.valor_principal, juros_mes,
                            juros_acumulados_final,
                            Algum(ObterValorIndexador(self, data)),
                            taxa_mensal, juros_pagos, valor_juros_pagos,
                            self.principal_inflacionado)
    IN  [inv |-> [self EXCEPT
                    !.ultimo_pagamento_juros = IF cupom THEN data ELSE @,
                    !.historico = DictSet(@, data, resultado)],
         erro |-> FALSE,
         resultado |-> resultado]

\* lines 282-293 with the value of the inception snapshot left at zero
ResultadoInicial_SemValor(self) ==
    ResultadoMensal(self.data_inicio, 0, self.valor_principal, 0, 0, Nenhum,
                    0, FALSE, 0, self.valor_principal)

\* base.py lines 282-293: the inception snapshot synthesized for the start
\* date when the history is empty
ResultadoInicial(self) ==
    ResultadoMensal(self.data_inicio, self.valor_principal,
                    self.valor_principal, 0, 0, Nenhum, 0, FALSE, 0,
                    self.valor_principal)

\* base.py lines 278-341: the accruing branch (data after data_inicio)
Acumular(self, data) ==
    LET vazio == DOMAIN self.historico = {}
        resultado_inicial == ResultadoInicial(self)
        ultima_data == MaxData(DOMAIN self.historico)
        ultimo_resultado == self.historico[ultima_data]
        indexador_mes == ObterValorIndexador(self, data)
        \* the object after lines 280-313
        s1 == IF vazio
              THEN [self EXCEPT
                      !.historico = DictSet(@, self.data_inicio, resultado_inicial),
                      !.valor_corrigido = self.valor_principal,
                      !.principal_inflacionado = self.valor_principal,
                      !.leituras = @ \cup {<<data, self.data_inicio>>}]
              ELSE IF EhIPCAAditivo(self)
              THEN LET pi == (self.principal_inflacionado * (Escala + indexador_mes))
                                 \div Escala
                   IN  [self EXCEPT
                          !.principal_inflacionado = pi,
                          !.valor_corrigido = pi,
                          !.leituras = @ \cup {<<data, ultima_data>>}]
              ELSE [self EXCEPT !.leituras = @ \cup {<<data, ultima_data>>}]
        valor_lido == IF vazio THEN self.valor_principal ELSE ultimo_resultado.valor
        juros_lidos == IF vazio THEN 0 ELSE ultimo_resultado.juros_acumulados
    IN  IF ObterTaxaMensalFalha(s1, data)
        THEN [inv |-> s1, erro |-> TRUE, resultado |-> Nenhum]
        ELSE LET taxa_mensal == ObterTaxaMensal(s1, data)
                 juros_mes ==
                     IF EhIPCAAditivo(s1)
                     THEN (s1.principal_inflacionado * taxa_mensal) \div Escala
                     ELSE IF s1.indexador = "PREFIXADO"
                     THEN (s1.valor_principal
                              * MathPowMensal(Escala + s1.taxa \div 100)) \div Escala
                     ELSE (valor_lido * taxa_mensal) \div Escala
                 juros_acumulados == juros_lidos + juros_mes
                 valor_atual ==
                     IF s1.indexador = "PREFIXADO" /\ s1.juros_semestrais
                     THEN s1.valor_principal + juros_acumulados
                     ELSE valor_lido + juros_mes
             IN  PagarERegistrar(s1, data, valor_atual, juros_mes,
                                 juros_acumulados, taxa_mensal)

\* simular_mes rejecting a date before the start only after valuating it
SimularMes_RejeitaDepoisDeRegistrar(self, data) ==
    IF DataLT(data, self.data_inicio)
    THEN [Acumular(self, data) EXCEPT !.erro = TRUE]
    ELSE IF data = self.data_inicio
    THEN PagarERegistrar(
             [self EXCEPT !.valor_corrigido = self.valor_principal,
                          !.principal_inflacionado = self.valor_principal],
             data, self.valor_principal, 0, 0, 0)
    ELSE Acumular(self, data)

\* Investimento.simular_mes
SimularMes(self, data) ==
    IF DataLT(data, self.data_inicio)
    THEN [inv |-> self, erro |-> TRUE, resultado |-> Nenhum]
    ELSE IF data = self.data_inicio
    THEN PagarERegistrar(
             [self EXCEPT !.valor_corrigido = self.valor_principal,
                          !.principal_inflacionado = self.valor_principal],
             data, self.valor_principal, 0, 0, 0)
    ELSE Acumular(self, data)

(***************************************************************************)
(* Investimento.simular_periodo                                            *)
(***************************************************************************)
\* the loop "for mes in meses: self.simular_mes(mes)"; a ValueError raised
\* by simular_mes ends the loop and propagates
RECURSIVE SimularPeriodoLoop(_, _, _)
SimularPeriodoLoop(self, meses, k) ==
    IF k > Len(meses) THEN [inv |-> self, erro |-> FALSE]
    ELSE LET r == SimularMes(self, meses[k])
         IN  IF r.erro THEN [inv |-> r.inv, erro |-> TRUE]
             ELSE SimularPeriodoLoop(r.inv, meses, k + 1)

SimularPeriodo(self, data_inicio, data_fim) ==
    IF DataLT(data_inicio, self.data_inicio) THEN [inv |-> self, erro |-> TRUE]
    ELSE IF DataLT(self.data_fim, data_fim) THEN [inv |-> self, erro |-> TRUE]
    ELSE SimularPeriodoLoop(self, Investimento_gerar_meses(data_inicio, data_fim), 1)

(***************************************************************************)
(* Investimento.calcular_rentabilidade                                     *)
(*                                                                         *)
(* The result is [erro |-> whether an exception was raised, excecao |-> its *)
(* class (SemValor when none), valor |-> the float returned, times Escala]. *)
(***************************************************************************)
\* the sum of base.py lines 478-482 over the dates of the set datas
RECURSIVE SomaJurosPagos(_, _)
SomaJurosPagos(historico, datas) ==
    IF datas = {} THEN 0
    ELSE LET data == CHOOSE d \in datas : TRUE
         IN  historico[data].valor_juros_pagos
                 + SomaJurosPagos(historico, datas \ {data})

\* lines 478-482: juros_pagos_total
JurosPagosTotal(self, data_inicio, data_fim) ==
    SomaJurosPagos(self.historico,
        {data \in DOMAIN self.historico :
            /\ DataLT(data_inicio, data) /\ DataLE(data, data_fim)
            /\ self.historico[data].juros_pagos})

Levanta(excecao) == [erro |-> TRUE, excecao |-> excecao, valor |-> Nenhum]

\* lines 474-488 for two dates of the history; the float division raises
\* ZeroDivisionError when valor_inicial is 0.0
RentabilidadeEntre(self, data_inicio, data_fim) ==
    IF self.historico[data_inicio].valor = 0 THEN Levanta("ZeroDivisionError")
    ELSE [erro |-> FALSE, excecao |-> SemValor,
          valor |-> Algum(((self.historico[data_fim].valor
                              + JurosPagosTotal(self, data_inicio, data_fim)) * Escala)
                             \div self.historico[data_inicio].valor - Escala)]

\* calcular_rentabilidade taking the last simulated date for an end date
\* that is not in the history
CalcularRentabilidade_FimAusenteUsaUltima(self, data_inicio, data_fim) ==
    IF self.historico = DictVazio THEN Levanta("ValueError")
    ELSE LET d0 == IF data_inicio = Nenhum THEN MinData(DOMAIN self.historico)
                   ELSE data_inicio
             d1 == IF data_fim \notin DOMAIN self.historico
                   THEN MaxData(DOMAIN self.historico)
                   ELSE data_fim
         IN  IF d0 \notin DOMAIN self.historico THEN Levanta("ValueError")
             ELSE RentabilidadeEntre(self, d0, d1)

\* Investimento.calcular_rentabilidade; a date is Nenhum when it is omitted
CalcularRentabilidade(self, data_inicio, data_fim) ==
    IF self.historico = DictVazio THEN Levanta("ValueError")
    ELSE LET d0 == IF data_inicio = Nenhum THEN MinData(DOMAIN self.historico)
                   ELSE data_inicio
             d1 == IF data_fim = Nenhum THEN MaxData(DOMAIN self.historico)
                   ELSE data_fim
         IN  IF d0 \notin DOMAIN self.historico THEN Levanta("ValueError")
             ELSE IF d1 \notin DOMAIN self.historico THEN Levanta("ValueError")
             ELSE RentabilidadeEntre(self, d0, d1)

(***************************************************************************)
(* Carteira.simular                                                        *)
(***************************************************************************)
NaN == <<>>                         \* float('nan') in a cell
Celula(v) == <<v>>                  \* a defined cell

SemResultado == [nulo |-> TRUE]     \* self.resultado = None

\* one event of the call log kept for the last Carteira.simular (a history
\* variable of the model): a call of simular_mes, or the storing of a
\* month's "Total"
Evento(tipo, nome, mes) == [tipo |-> tipo, nome |-> nome, mes |-> mes]

\* lines 104-114 with a failed valuation recorded as 0.0
RegistrarNoMes_FalhaComoZero(acc, nome, mes, r) ==
    LET ev == Append(acc.eventos, Evento("simular_mes", nome, mes))
        objs == [acc.invs EXCEPT ![nome] = r.inv]
    IN  IF r.erro
        THEN [acc EXCEPT !.invs = objs,
                         !.eventos = ev,
                         !.resultado_mes = DictSet(@, nome, Celula(0))]
        ELSE LET pago == r.resultado.juros_pagos
                             /\ r.resultado.valor_juros_pagos > 0
             IN  [acc EXCEPT
                    !.invs = objs,
                    !.eventos = ev,
                    !.resultado_mes = DictSet(@, nome, Celula(r.resultado.valor)),
                    !.total_mes = @ + r.resultado.valor,
                    !.dividendos_mes =
                        IF pago
                        THEN DictSet(@, nome, r.resultado.valor_juros_pagos)
                        ELSE @,
                    !.total_dividendos_mes =
                        IF pago THEN @ + r.resultado.valor_juros_pagos ELSE @]

\* carteira.py lines 99-117: the loop over self.investimentos.items() for
\* one month.  acc carries the objects and the locals of the month.
\* lines 104-114 recording a coupon whenever juros_pagos is set, a payout
\* of 0.0 included
RegistrarNoMes_CupomZeroRegistrado(acc, nome, mes, r) ==
    LET ev == Append(acc.eventos, Evento("simular_mes", nome, mes))
        objs == [acc.invs EXCEPT ![nome] = r.inv]
    IN  IF r.erro
        THEN [acc EXCEPT !.invs = objs,
                         !.eventos = ev,
                         !.resultado_mes = DictSet(@, nome, NaN)]
        ELSE [acc EXCEPT
                !.invs = objs,
                !.eventos = ev,
                !.resultado_mes = DictSet(@, nome, Celula(r.resultado.valor)),
                !.total_mes = @ + r.resultado.valor,
                !.dividendos_mes =
                    IF r.resultado.juros_pagos
                    THEN DictSet(@, nome, r.resultado.valor_juros_pagos)
                    ELSE @,
                !.total_dividendos_mes =
                    IF r.resultado.juros_pagos
                    THEN @ + r.resultado.valor_juros_pagos ELSE @]

\* lines 104-114: what the month's locals become once simular_mes returned
\* r (or raised ValueError)
RegistrarNoMes(acc, nome, mes, r) ==
    LET ev == Append(acc.eventos, Evento("simular_mes", nome, mes))
        objs == [acc.invs EXCEPT ![nome] = r.inv]
    IN  IF r.erro
        THEN [acc EXCEPT !.invs = objs,
                         !.eventos = ev,
                         !.resultado_mes = DictSet(@, nome, NaN)]
        ELSE LET pago == r.resultado.juros_pagos
                             /\ r.resultado.valor_juros_pagos > 0
             IN  [acc EXCEPT
                    !.invs = objs,
                    !.eventos = ev,
                    !.resultado_mes = DictSet(@, nome, Celula(r.resultado.valor)),
                    !.total_mes = @ + r.resultado.valor,
                    !.dividendos_mes =
                        IF pago
                        THEN DictSet(@, nome, r.resultado.valor_juros_pagos)
                        ELSE @,
                    !.total_dividendos_mes =
                        IF pago THEN @ + r.resultado.valor_juros_pagos ELSE @]

\* the body of that loop with "mes > investimento.data_inicio"
SimularInvestimentoDoMes_InicioEstrito(nome, mes, acc) ==
    IF DataLT(acc.invs[nome].data_inicio, mes)
    THEN RegistrarNoMes(acc, nome, mes, SimularMes(acc.invs[nome], mes))
    ELSE [acc EXCEPT !.resultado_mes = DictSet(@, nome, NaN)]

\* the body of that loop for one instrument
SimularInvestimentoDoMes(nome, mes, acc) ==
    IF DataLE(acc.invs[nome].data_inicio, mes)
    THEN RegistrarNoMes(acc, nome, mes, SimularMes(acc.invs[nome], mes))
    ELSE [acc EXCEPT !.resultado_mes = DictSet(@, nome, NaN)]

\* the loop over the instruments ended by the first valuation that raises
RECURSIVE SimularInvestimentosDoMes_ParaNaFalha(_, _, _, _)
SimularInvestimentosDoMes_ParaNaFalha(nomes, k, mes, acc) ==
    IF k > Len(nomes) THEN acc
    ELSE IF k > 1 /\ DataLE(acc.invs[nomes[k - 1]].data_inicio, mes)
                  /\ acc.resultado_mes[nomes[k - 1]] = NaN
    THEN acc
    ELSE SimularInvestimentosDoMes_ParaNaFalha(nomes, k + 1, mes,
             SimularInvestimentoDoMes(nomes[k], mes, acc))

\* carteira.py lines 99-117: the loop over the instruments
RECURSIVE SimularInvestimentosDoMes(_, _, _, _)
SimularInvestimentosDoMes(nomes, k, mes, acc) ==
    IF k > Len(nomes) THEN acc
    ELSE SimularInvestimentosDoMes(nomes, k + 1, mes,
             SimularInvestimentoDoMes(nomes[k], mes, acc))

\* carteira.py lines 119-130: the month's "Total" and dictionaries are
\* stored.  m holds the locals of the month after the loop over instruments.
FecharMes(st, mes, m) ==
    LET resultado_mes == DictSet(m.resultado_mes, "Total", Celula(m.total_mes))
        ha_dividendos == DOMAIN m.dividendos_mes # {}
    IN  [invs |-> m.invs,
         eventos |-> Append(m.eventos, Evento("total", "Total", mes)),
         resultado_mensal |-> DictSet(st.resultado_mensal, mes, resultado_mes),
         resultado_consolidado |->
             DictSet(st.resultado_consolidado, mes, m.total_mes),
         dividendos_recebidos |->
             IF ha_dividendos
             THEN DictSet(st.dividendos_recebidos, mes,
                      DictSet(m.dividendos_mes, "Total", m.total_dividendos_mes))
             ELSE st.dividendos_recebidos,
         total_dividendos |->
             IF ha_dividendos
             THEN st.total_dividendos + m.total_dividendos_mes
             ELSE st.total_dividendos]

\* lines 92-98 with total_mes carried over from the month before
InicioDoMes_TotalNaoZerado(st) ==
    [invs |-> st.invs,
     eventos |-> st.eventos,
     resultado_mes |-> DictVazio,
     dividendos_mes |-> DictVazio,
     total_mes |->
         IF DOMAIN st.resultado_consolidado = {} THEN 0
         ELSE st.resultado_consolidado[MaxData(DOMAIN st.resultado_consolidado)],
     total_dividendos_mes |-> 0]

\* carteira.py lines 92-98: the locals a month starts with
InicioDoMes(st) ==
    [invs |-> st.invs,
     eventos |-> st.eventos,
     resultado_mes |-> DictVazio,
     dividendos_mes |-> DictVazio,
     total_mes |-> 0,
     total_dividendos_mes |-> 0]

\* carteira.py lines 92-130: the loop over the months.  st carries the
\* objects, the four result dictionaries and the call log.
RECURSIVE SimularMeses(_, _, _, _)
SimularMeses(nomes, meses, j, st) ==
    IF j > Len(meses) THEN st
    ELSE SimularMeses(nomes, meses, j + 1,
             FecharMes(st, meses[j],
                 SimularInvestimentosDoMes(nomes, 1, meses[j], InicioDoMes(st))))

\* lines 133-141: the ResultadoCarteira stored in self.resultado
ResultadoCarteira(data_inicio, data_fim, investimentos, st) ==
    [nulo |-> FALSE,
     data_inicio |-> data_inicio,
     data_fim |-> data_fim,
     investimentos |-> investimentos,
     resultado_mensal |-> st.resultado_mensal,
     resultado_consolidado |-> st.resultado_consolidado,
     dividendos_recebidos |-> st.dividendos_recebidos,
     total_dividendos |-> st.total_dividendos]

\* what Carteira.simular returns, given the months and the state after the
\* loop over them
RetornoSimular(data_inicio, data_fim, investimentos, meses, st) ==
    [invs |-> st.invs,
     eventos |-> st.eventos,
     meses |-> meses,
     resultado |-> ResultadoCarteira(data_inicio, data_fim, investimentos, st)]

\* Carteira.simular: [invs |-> the objects after the run,
\* resultado |-> the ResultadoCarteira stored, eventos |-> the call log,
\* meses |-> the months generated]
SimularDosMeses(investimentos, objetos, data_inicio, data_fim, meses) ==
    RetornoSimular(data_inicio, data_fim, investimentos, meses,
        SimularMeses(investimentos, meses, 1,
            [invs |-> objetos,
             eventos |-> <<>>,
             resultado_mensal |-> DictVazio,
             resultado_consolidado |-> DictVazio,
             dividendos_recebidos |-> DictVazio,
             total_dividendos |-> 0]))

CarteiraSimular(investimentos, objetos, data_inicio, data_fim) ==
    SimularDosMeses(investimentos, objetos, data_inicio, data_fim,
                    Carteira_gerar_meses(data_inicio, data_fim))

(***************************************************************************)
(* Carteira: the instrument mapping and the lookups.                       *)
(*                                                                         *)
(* self.investimentos is the pair of cart.investimentos (the keys, in      *)
(* insertion order) and objetos (the object under each key).               *)
(***************************************************************************)
\* the key is in self.investimentos
TemNome(cart, nome) ==
    \E i \in DOMAIN cart.investimentos : cart.investimentos[i] = nome

\* adicionar_investimento storing the instrument under a name already
\* present instead of raising
AdicionarInvestimento_Sobrescreve(cart, objetos, investimento) ==
    [erro |-> FALSE,
     carteira |-> IF TemNome(cart, investimento.nome) THEN cart
                  ELSE [cart EXCEPT !.investimentos = Append(@, investimento.nome)],
     objetos |-> DictSet(objetos, investimento.nome, investimento)]

\* Carteira.adicionar_investimento
AdicionarInvestimento(cart, objetos, investimento) ==
    IF TemNome(cart, investimento.nome)
    THEN [erro |-> TRUE, carteira |-> cart, objetos |-> objetos]
    ELSE [erro |-> FALSE,
          carteira |-> [cart EXCEPT !.investimentos = Append(@, investimento.nome)],
          objetos |-> DictSet(objetos, investimento.nome, investimento)]

\* del d[k] on a Python dict: the keys, and the objects
SemNome(investimentos, nome) ==
    LET Outro(n) == n # nome IN SelectSeq(investimentos, Outro)
DictDel(d, k) == [x \in (DOMAIN d) \ {k} |-> d[x]]

\* remover_investimento ignoring a name that is not present
RemoverInvestimento_IgnoraAusente(cart, objetos, nome_investimento) ==
    [erro |-> FALSE,
     carteira |-> [cart EXCEPT !.investimentos = SemNome(@, nome_investimento)],
     objetos |-> DictDel(objetos, nome_investimento)]

\* Carteira.remover_investimento
RemoverInvestimento(cart, objetos, nome_investimento) ==
    IF ~TemNome(cart, nome_investimento)
    THEN [erro |-> TRUE, carteira |-> cart, objetos |-> objetos]
    ELSE [erro |-> FALSE,
          carteira |-> [cart EXCEPT !.investimentos = SemNome(@, nome_investimento)],
          objetos |-> DictDel(objetos, nome_investimento)]

\* valor_total answering 0.0 for a date that was not simulated
ValorTotal_ZeroForaDoPeriodo(cart, data) ==
    IF cart.resultado.nulo THEN [erro |-> TRUE, valor |-> Nenhum]
    ELSE IF data = Nenhum
    THEN [erro |-> FALSE,
          valor |-> Algum(cart.resultado.resultado_consolidado[
                        MaxData(DOMAIN cart.resultado.resultado_consolidado)])]
    ELSE IF data \notin DOMAIN cart.resultado.resultado_consolidado
    THEN [erro |-> FALSE, valor |-> Algum(0)]
    ELSE [erro |-> FALSE, valor |-> Algum(cart.resultado.resultado_consolidado[data])]

\* Carteira.valor_total; data is Nenhum when no date is given
ValorTotal(cart, data) ==
    IF cart.resultado.nulo THEN [erro |-> TRUE, valor |-> Nenhum]
    ELSE LET d == IF data = Nenhum
                  THEN MaxData(DOMAIN cart.resultado.resultado_consolidado)
                  ELSE data
         IN  IF d \notin DOMAIN cart.resultado.resultado_consolidado
             THEN [erro |-> TRUE, valor |-> Nenhum]
             ELSE [erro |-> FALSE,
                   valor |-> Algum(cart.resultado.resultado_consolidado[d])]

\* Carteira.rentabilidade_periodo; the float division raises
\* ZeroDivisionError when the consolidated total of data_inicio is 0.0
RentabilidadePeriodo(cart, data_inicio, data_fim) ==
    IF cart.resultado.nulo THEN Levanta("ValueError")
    ELSE IF data_inicio \notin DOMAIN cart.resultado.resultado_consolidado
    THEN Levanta("ValueError")
    ELSE IF data_fim \notin DOMAIN cart.resultado.resultado_consolidado
    THEN Levanta("ValueError")
    ELSE IF cart.resultado.resultado_consolidado[data_inicio] = 0
    THEN Levanta("ZeroDivisionError")
    ELSE [erro |-> FALSE, excecao |-> SemValor,
          valor |-> Algum((cart.resultado.resultado_consolidado[data_fim] * Escala)
                              \div cart.resultado.resultado_consolidado[data_inicio]
                              - Escala)]

(***************************************************************************)
(* MotorSimulacao.                                                         *)
(*                                                                         *)
(* Its operations build a second Carteira holding other Investimento       *)
(* objects, so objects are held by reference here: mem.objs maps a         *)
(* reference to the object it denotes, mem.carteiras maps "original" and   *)
(* "copia" to a Carteira whose refs field gives the reference held under   *)
(* each name.                                                              *)
(***************************************************************************)
Ref(dono, nome) == <<dono, nome>>

\* the memory holding the original portfolio and its instruments
Memoria(objetos, cart) ==
    [objs |-> [r \in {Ref("original", n) : n \in DOMAIN objetos} |-> objetos[r[2]]],
     carteiras |-> [c \in {"original"} |->
                       [investimentos |-> cart.investimentos,
                        refs |-> [n \in DOMAIN objetos |-> Ref("original", n)],
                        resultado |-> cart.resultado]]]

\* motor_simulacao.py lines 294-346: the new instance built from an
\* instrument, by its class
CopiarInvestimento(inv) ==
    IF inv.classe = "InvestimentoIPCA"
    THEN InvestimentoIPCA(inv.nome, inv.valor_principal, inv.data_inicio,
                          inv.data_fim, inv.taxa, inv.juros_semestrais, DictVazio)
    ELSE Investimento([nome |-> inv.nome, valor_principal |-> inv.valor_principal,
                       data_inicio |-> inv.data_inicio, data_fim |-> inv.data_fim,
                       indexador |-> SemValor, operador |-> SemValor,
                       taxa |-> inv.taxa, ipca_padrao |-> 0, cdi_padrao |-> 0,
                       juros_semestrais |-> inv.juros_semestrais,
                       meses_pagamento_juros |-> <<1, 7>>])

\* a Carteira that holds the very objects of the original one
CopiarCarteira_MesmosObjetos(mem) ==
    [mem EXCEPT !.carteiras =
        [c \in {"original", "copia"} |->
            IF c = "original" THEN mem.carteiras["original"]
            ELSE [investimentos |-> mem.carteiras["original"].investimentos,
                  refs |-> mem.carteiras["original"].refs,
                  resultado |-> SemResultado]]]

\* MotorSimulacao._copiar_carteira: a new Carteira "copia" holding a new
\* instance for every instrument of the original one
CopiarCarteira(mem) ==
    LET orig == mem.carteiras["original"]
        nomes == DOMAIN orig.refs
    IN  [objs |-> [r \in {Ref("original", n) : n \in nomes}
                         \cup {Ref("copia", n) : n \in nomes} |->
                      IF r[1] = "original" THEN mem.objs[r]
                      ELSE CopiarInvestimento(mem.objs[Ref("original", r[2])])],
         carteiras |-> [c \in {"original", "copia"} |->
                          IF c = "original" THEN orig
                          ELSE [investimentos |-> orig.investimentos,
                                refs |-> [n \in nomes |-> Ref("copia", n)],
                                resultado |-> SemResultado]]]

\* what the memory becomes once Carteira.simular on carteira c returned r
GuardarSimulacao(mem, c, r) ==
    [objs |-> [x \in DOMAIN mem.objs |->
                  IF \E n \in DOMAIN mem.carteiras[c].refs : mem.carteiras[c].refs[n] = x
                  THEN r.invs[x[2]]
                  ELSE mem.objs[x]],
     carteiras |-> [mem.carteiras EXCEPT ![c].resultado = r.resultado]]

\* carteira c .simular(data_inicio, data_fim) on the objects it holds
SimularNaMemoria(mem, c, data_inicio, data_fim) ==
    GuardarSimulacao(mem, c,
        CarteiraSimular(mem.carteiras[c].investimentos,
                        [n \in DOMAIN mem.carteiras[c].refs |->
                            mem.objs[mem.carteiras[c].refs[n]]],
                        data_inicio, data_fim))

\* MotorSimulacao._aplicar_cenario on carteira c: the instruments that have
\* definir_fonte_ipca get the scenario's index source
AplicarCenario(mem, c, config, cenario) ==
    IF cenario \in DOMAIN config.cenarios_ipca
    THEN [mem EXCEPT !.objs =
            [x \in DOMAIN mem.objs |->
                IF /\ \E n \in DOMAIN mem.carteiras[c].refs : mem.carteiras[c].refs[n] = x
                   /\ mem.objs[x].classe = "InvestimentoIPCA"
                THEN [mem.objs[x] EXCEPT !.fonte_ipca = config.cenarios_ipca[cenario]]
                ELSE mem.objs[x]]]
    ELSE mem

\* the dates of S in increasing order
RECURSIVE OrdenarDatas(_)
OrdenarDatas(S) ==
    IF S = {} THEN <<>>
    ELSE <<MinData(S)>> \o OrdenarDatas(S \ {MinData(S)})

\* the rows of pd.DataFrame(d).T for a dict d of dicts by month: one row
\* per key, in the order of insertion, which is the increasing order of the
\* months for the dicts Carteira.simular fills
LinhasDoDataFrame(d, datas) ==
    [k \in DOMAIN datas |-> [indice |-> datas[k], colunas |-> d[datas[k]]]]

\* Carteira.to_dataframe (the carteira has been simulated)
ToDataframe(cart) ==
    LinhasDoDataFrame(cart.resultado.resultado_mensal,
                      OrdenarDatas(DOMAIN cart.resultado.resultado_mensal))

\* MotorSimulacao.simular(cenario) of a motor on carteira c (lines 99-122;
\* aportes, impostos and taxa_adm do nothing)
MotorSimular(mem, c, config, cenario) ==
    SimularNaMemoria(AplicarCenario(mem, c, config, cenario), c,
                     config.data_inicio, config.data_fim)

\* lines 136-148: the loop over the scenario names.  st is [mem, resultados]
GuardarCenario(st, cenario, mem) ==
    [mem |-> mem,
     resultados |-> DictSet(st.resultados, cenario, ToDataframe(mem.carteiras["copia"]))]

RECURSIVE SimularCenarios(_, _, _, _)
SimularCenarios(cenarios, k, config, st) ==
    IF k > Len(cenarios) THEN st
    ELSE SimularCenarios(cenarios, k + 1, config,
             GuardarCenario(st, cenarios[k],
                 MotorSimular(CopiarCarteira(st.mem), "copia", config, cenarios[k])))

\* MotorSimulacao.simular_multiplos_cenarios
SimularMultiplosCenarios(mem, config, resultados, cenarios) ==
    SimularCenarios(cenarios, 1, config, [mem |-> mem, resultados |-> resultados])

\* Cenario.aplicar_a_carteira on carteira c
AplicarACarteira(mem, c, ajustes_taxa) ==
    [mem EXCEPT !.objs =
        [x \in DOMAIN mem.objs |->
            IF \E n \in DOMAIN ajustes_taxa \cap DOMAIN mem.carteiras[c].refs :
                   mem.carteiras[c].refs[n] = x
            THEN [mem.objs[x] EXCEPT !.taxa = @ + ajustes_taxa[x[2]]]
            ELSE mem.objs[x]]]

\* MotorSimulacao.simular_cenario: the memory after the call
SimularCenario(mem, config, ajustes_taxa) ==
    SimularNaMemoria(AplicarACarteira(CopiarCarteira(mem), "copia", ajustes_taxa),
                     "copia", config.data_inicio, config.data_fim)

(***************************************************************************)
(* The instruments and the calls the model draws from.                     *)
(***************************************************************************)
\* (indexador, operador, taxa, ipca_padrao, cdi_padrao): fixed rate 12%,
\* fixed rate -200% (math.pow raises), IPCA + 6% with no inflation and with
\* 6% a year, 110% of a CDI of 12% a year, and no indexation
Tipos ==
    {<<"PREFIXADO", SemValor, 12 * Escala, 0, 0>>,
     <<"PREFIXADO", SemValor, (-200) * Escala, 0, 0>>,
     <<"IPCA", ADITIVO, 6 * Escala, 0, 0>>,
     <<"IPCA", ADITIVO, 6 * Escala, 600, 0>>,
     <<"CDI", MULTIPLICADO, 110 * Escala, 0, 1200>>,
     <<SemValor, SemValor, 0, 0, 0>>}

DatasInicio == {Date(2023, 11, 1), Date(2023, 12, 1)}
DatasFim == {Date(2023, 11, 30), Date(2024, 1, 1), Date(2024, 2, 1)}
MesesPagamento == {<<1, 7>>, <<12, 6>>}

Config(nome, valor_principal, tipo, data_inicio, data_fim, juros_semestrais, meses_pagamento_juros) ==
    [nome |-> nome, valor_principal |-> valor_principal,
     data_inicio |-> data_inicio, data_fim |-> data_fim,
     indexador |-> tipo[1], operador |-> tipo[2], taxa |-> tipo[3],
     ipca_padrao |-> tipo[4], cdi_padrao |-> tipo[5],
     juros_semestrais |-> juros_semestrais,
     meses_pagamento_juros |-> meses_pagamento_juros]

\* the parameters instrument "A" is constructed from: those of the sets
\* above that Investimento.__init__ accepts
CatalogoA ==
    {cfg \in
        {Config("A", 100000, t, di, df, FALSE, <<1, 7>>) :
            t \in Tipos, di \in DatasInicio, df \in DatasFim}
        \cup
        {Config("A", 100000, x[1], x[2], x[3], TRUE, x[4]) :
            x \in Tipos \X DatasInicio \X DatasFim \X MesesPagamento} :
     ConstrutorValido(cfg)}

\* instrument "A" when held in the portfolio together with "B"
CatalogoCarteiraA ==
    {cfg \in CatalogoA :
        /\ cfg.data_inicio = Date(2023, 11, 1)
        /\ cfg.data_fim # Date(2023, 11, 30)
        /\ cfg.meses_pagamento_juros = <<1, 7>>
        /\ cfg.indexador # SemValor
        /\ cfg.indexador = "IPCA" => cfg.ipca_padrao > 0}

\* instrument "B": starts a month after the earliest window start
CatalogoB ==
    {Config("B", 50000, <<"IPCA", ADITIVO, 6 * Escala, 600, 0>>,
            Date(2023, 12, 1), Date(2024, 2, 1), TRUE, <<1, 7>>),
     Config("B", 50000, <<"CDI", MULTIPLICADO, 110 * Escala, 0, 1200>>,
            Date(2023, 12, 1), Date(2024, 1, 1), FALSE, <<1, 7>>)}

\* windows of Carteira.simular and simular_periodo
JanelasInicio == {Date(2023, 11, 1), Date(2023, 12, 1)}
JanelasFim == {Date(2023, 12, 1), Date(2024, 1, 1), Date(2024, 2, 1)}
JanelasFimPeriodo == {Date(2024, 1, 1), Date(2024, 2, 1)}
\* months simular_mes is called with directly
MesesDiretos == {Date(2023, 11, 1), Date(2023, 12, 1), Date(2024, 1, 1),
                 Date(2024, 2, 1)}

\* inputs of the month generators
DatasGerador ==
    {Date(2023 + a, m, d) : a \in 0 .. (MaxAnos - 1), m \in 1 .. 12, d \in {1, 15}}

(***************************************************************************)
(* State machine                                                           *)
(***************************************************************************)
Ult(op, nome, d0, d1, erro, eventos, meses) ==
    [op |-> op, nome |-> nome, d0 |-> d0, d1 |-> d1, erro |-> erro,
     eventos |-> eventos, meses |-> meses, retorno |-> Nenhum]

\* the same for a call whose returned value is kept
UltCom(op, nome, d0, d1, erro, retorno) ==
    [Ult(op, nome, d0, d1, erro, <<>>, <<>>) EXCEPT !.retorno = retorno]

\* MotorSimulacao.__init__: resultados = {}
Motor(config) == [config |-> config, resultados |-> DictVazio]

\* ConfiguracaoSimulacao
ConfiguracaoSimulacao(data_inicio, data_fim, cenarios_ipca) ==
    [data_inicio |-> data_inicio, data_fim |-> data_fim,
     cenarios_ipca |-> cenarios_ipca]

\* no motor was built
MotorSemUso == Motor(ConfiguracaoSimulacao(Nenhum, Nenhum, DictVazio))

GmInicial == [d0 |-> Nenhum, d1 |-> Nenhum, carteira |-> <<>>, investimento |-> <<>>]

Init ==
    /\ gm = GmInicial
    /\ invs \in {[n \in {"A", "B"} |-> IF n = "A" THEN Investimento(ca)
                                                   ELSE Investimento(cb)] :
                    ca \in CatalogoCarteiraA, cb \in CatalogoB}
    /\ carteira = [investimentos |-> <<"A", "B">>, resultado |-> SemResultado]
    /\ ult = Ult("init", "", Nenhum, Nenhum, FALSE, <<>>, <<>>)
    /\ nops = 0
    /\ motor = MotorSemUso

\* carteira.simular keeping the consolidated totals of the result it replaces
AposSimular_Acumula(data_inicio, data_fim, r) ==
    /\ invs' = r.invs
    /\ carteira' =
          [carteira EXCEPT !.resultado =
              IF carteira.resultado.nulo THEN r.resultado
              ELSE [r.resultado EXCEPT !.resultado_consolidado =
                       [k \in (DOMAIN carteira.resultado.resultado_consolidado)
                                  \cup (DOMAIN @) |->
                           IF k \in DOMAIN @ THEN @[k]
                           ELSE carteira.resultado.resultado_consolidado[k]]]]
    /\ ult' = Ult("simular", "", data_inicio, data_fim, FALSE, r.eventos, r.meses)

\* carteira.simular(data_inicio, data_fim)
AposSimular(data_inicio, data_fim, r) ==
    /\ invs' = r.invs
    /\ carteira' = [carteira EXCEPT !.resultado = r.resultado]
    /\ ult' = Ult("simular", "", data_inicio, data_fim, FALSE, r.eventos, r.meses)

Simular(data_inicio, data_fim) ==
    /\ nops < MaxOps
    /\ AposSimular(data_inicio, data_fim,
           CarteiraSimular(carteira.investimentos, invs, data_inicio, data_fim))
    /\ nops' = nops + 1
    /\ UNCHANGED <<gm, motor>>

\* invs[nome].simular_mes(data), called directly
AposChamada(op, nome, d0, d1, r) ==
    /\ invs' = [invs EXCEPT ![nome] = r.inv]
    /\ ult' = Ult(op, nome, d0, d1, r.erro, <<>>, <<>>)

ChamarSimularMes(nome, data) ==
    /\ nops < MaxOps
    /\ AposChamada("simular_mes", nome, data, data, SimularMes(invs[nome], data))
    /\ nops' = nops + 1
    /\ UNCHANGED <<gm, carteira, motor>>

\* invs[nome].simular_periodo(data_inicio, data_fim), called directly
ChamarSimularPeriodo(nome, data_inicio, data_fim) ==
    /\ nops < MaxOps
    /\ AposChamada("simular_periodo", nome, data_inicio, data_fim,
           SimularPeriodo(invs[nome], data_inicio, data_fim))
    /\ nops' = nops + 1
    /\ UNCHANGED <<gm, carteira, motor>>

Next ==
    \/ \E d0 \in JanelasInicio, d1 \in JanelasFim : Simular(d0, d1)
    \/ \E n \in DOMAIN invs, d \in {Date(2023, 11, 1), Date(2024, 1, 1)} :
           ChamarSimularMes(n, d)
    \/ \E n \in DOMAIN invs, d0 \in JanelasInicio, d1 \in JanelasFimPeriodo :
           ChamarSimularPeriodo(n, d0, d1)

Spec == Init /\ [][Next]_vars

(***************************************************************************)
(* The portfolio driven by Carteira.simular alone.                         *)
(***************************************************************************)
NextCarteira == \E d0 \in JanelasInicio, d1 \in JanelasFim : Simular(d0, d1)

SpecCarteira == Init /\ [][NextCarteira]_vars

(***************************************************************************)
(* A MotorSimulacao on a portfolio of an InvestimentoIPCA "A" and an       *)
(* Investimento "B".                                                       *)
(***************************************************************************)
\* ConfiguracaoSimulacao.cenarios_ipca: scenario "otimista" gives the index
\* of December 2023 (0.2%); scenario "base" has no entry
CenariosIPCA == [c \in {"otimista"} |-> [d \in {Date(2023, 12, 1)} |-> 20]]

\* the lists of scenario names simular_multiplos_cenarios is called with
ListasDeCenarios ==
    {<<>>, <<"base">>, <<"otimista">>, <<"base", "otimista">>, <<"otimista", "base">>}

\* Cenario.ajustes_taxa of the scenarios simular_cenario is called with
AjustesDeTaxa ==
    {DictVazio, [n \in {"A"} |-> 600], [n \in {"A", "Z"} |-> 600]}

CatalogoMotorA ==
    {InvestimentoIPCA("A", 100000, Date(2023, 11, 1), df, 600, js, DictVazio) :
        df \in {Date(2024, 1, 1), Date(2024, 2, 1)}, js \in BOOLEAN}

InitMotor ==
    /\ gm = GmInicial
    /\ invs \in {[n \in {"A", "B"} |-> IF n = "A" THEN a ELSE Investimento(cb)] :
                    a \in CatalogoMotorA, cb \in CatalogoB}
    /\ carteira = [investimentos |-> <<"A", "B">>, resultado |-> SemResultado]
    /\ ult = Ult("init", "", Nenhum, Nenhum, FALSE, <<>>, <<>>)
    /\ nops = 0
    /\ motor \in {Motor(ConfiguracaoSimulacao(d0, d1, CenariosIPCA)) :
                     d0 \in JanelasInicio, d1 \in JanelasFim}

\* the state after a call of the motor left the memory r.mem, the motor's
\* resultados r.resultados, and returned retorno
AposMotor(op, r, retorno) ==
    /\ invs' = [n \in DOMAIN invs |-> r.mem.objs[Ref("original", n)]]
    /\ carteira' = [carteira EXCEPT
                      !.resultado = r.mem.carteiras["original"].resultado]
    /\ motor' = [motor EXCEPT !.resultados = r.resultados]
    /\ ult' = UltCom(op, "", motor.config.data_inicio, motor.config.data_fim,
                     FALSE, retorno)

\* what simular_multiplos_cenarios returns: the entries of the scenarios run
RetornoCenarios(r, cenarios) ==
    [c \in {cenarios[k] : k \in DOMAIN cenarios} |-> r.resultados[c]]

AposCenarios(cenarios, r) ==
    AposMotor("simular_multiplos_cenarios", r, RetornoCenarios(r, cenarios))

\* motor.simular_multiplos_cenarios(cenarios)
MultiplosCenarios(cenarios) ==
    /\ nops < MaxOps
    /\ AposCenarios(cenarios,
           SimularMultiplosCenarios(Memoria(invs, carteira), motor.config,
                                    motor.resultados, cenarios))
    /\ nops' = nops + 1
    /\ UNCHANGED gm

AposCenario(mem) ==
    AposMotor("simular_cenario", [mem |-> mem, resultados |-> motor.resultados],
              ToDataframe(mem.carteiras["copia"]))

\* motor.simular_cenario(cenario), cenario with the given ajustes_taxa
UmCenario(ajustes_taxa) ==
    /\ nops < MaxOps
    /\ AposCenario(SimularCenario(Memoria(invs, carteira), motor.config, ajustes_taxa))
    /\ nops' = nops + 1
    /\ UNCHANGED gm

NextMotor ==
    \/ \E d0 \in JanelasInicio, d1 \in JanelasFim : Simular(d0, d1)
    \/ \E cenarios \in ListasDeCenarios : MultiplosCenarios(cenarios)
    \/ \E ajustes_taxa \in AjustesDeTaxa : UmCenario(ajustes_taxa)

SpecMotor == InitMotor /\ [][NextMotor]_vars

(***************************************************************************)
(* The same MotorSimulacao, asked for one scenario at a time with          *)
(* MotorSimulacao.simular: the scenario is applied to the portfolio the    *)
(* motor holds and that portfolio is simulated.                            *)
(***************************************************************************)
NomesDeCenario == {"base", "otimista"}

\* the state after motor.simular(cenario) left the memory mem
AposMotorSimular(cenario, mem) ==
    /\ invs' = [n \in DOMAIN invs |-> mem.objs[Ref("original", n)]]
    /\ carteira' = [carteira EXCEPT
                      !.resultado = mem.carteiras["original"].resultado]
    /\ motor' = [motor EXCEPT !.resultados =
                    DictSet(@, cenario, ToDataframe(mem.carteiras["original"]))]
    /\ ult' = UltCom("motor_simular", cenario, motor.config.data_inicio,
                     motor.config.data_fim, FALSE,
                     ToDataframe(mem.carteiras["original"]))

\* motor.simular(cenario)
ChamarMotorSimular(cenario) ==
    /\ nops < MaxOps
    /\ AposMotorSimular(cenario,
           MotorSimular(Memoria(invs, carteira), "original", motor.config, cenario))
    /\ nops' = nops + 1
    /\ UNCHANGED gm

NextMotorDireto == \E cenario \in NomesDeCenario : ChamarMotorSimular(cenario)

SpecMotorDireto == InitMotor /\ [][NextMotorDireto]_vars

(***************************************************************************)
(* A portfolio whose instruments are added and removed, simulated over     *)
(* windows that start or end on any day, and queried.                      *)
(***************************************************************************)
\* the instruments adicionar_investimento is called with: two of them have
\* the same name
CatalogoGestao ==
    {Investimento(Config("A", 100000, <<"PREFIXADO", SemValor, 12 * Escala, 0, 0>>,
                         Date(2023, 11, 1), Date(2024, 2, 1), FALSE, <<1, 7>>)),
     Investimento(Config("A", 50000, <<"CDI", MULTIPLICADO, 110 * Escala, 0, 1200>>,
                         Date(2023, 11, 1), Date(2024, 2, 1), FALSE, <<1, 7>>)),
     Investimento(Config("B", 50000, <<"IPCA", ADITIVO, 6 * Escala, 600, 0>>,
                         Date(2023, 12, 1), Date(2024, 2, 1), TRUE, <<1, 7>>))}

\* adicionar_investimento on the outcome of the calls before it
AdicionarInvestimentoEm(r, investimento) ==
    IF r.erro THEN r
    ELSE AdicionarInvestimento(r.carteira, r.objetos, investimento)

\* the portfolios built before the first operation: the instruments of a
\* list, added in its order to an empty Carteira
RECURSIVE CarteiraCom(_, _)
CarteiraCom(lista, k) ==
    IF k = 0
    THEN [erro |-> FALSE,
          carteira |-> [investimentos |-> <<>>, resultado |-> SemResultado],
          objetos |-> DictVazio]
    ELSE AdicionarInvestimentoEm(CarteiraCom(lista, k - 1), lista[k])

ListasGestao ==
    {<<>>} \cup {<<a>> : a \in CatalogoGestao}
           \cup {<<a, b>> : a \in CatalogoGestao, b \in CatalogoGestao}

JanelasGestaoInicio == {Date(2023, 11, 1), Date(2023, 11, 15)}
JanelasGestaoFim == {Date(2023, 12, 1), Date(2023, 12, 15), Date(2024, 1, 1)}
DatasConsulta ==
    {Nenhum, Date(2023, 10, 1), Date(2023, 11, 1), Date(2023, 11, 15),
     Date(2023, 12, 1), Date(2023, 12, 15), Date(2024, 1, 1), Date(2024, 2, 1)}
NomesRemover == {"A", "B", "Z"}

InitGestao ==
    /\ gm = GmInicial
    /\ \E l \in ListasGestao :
           /\ ~CarteiraCom(l, Len(l)).erro
           /\ invs = CarteiraCom(l, Len(l)).objetos
           /\ carteira = CarteiraCom(l, Len(l)).carteira
    /\ ult = Ult("init", "", Nenhum, Nenhum, FALSE, <<>>, <<>>)
    /\ nops = 0
    /\ motor = MotorSemUso

\* the state after adicionar_investimento or remover_investimento
AposEdicao(op, nome, r) ==
    /\ invs' = r.objetos
    /\ carteira' = r.carteira
    /\ ult' = UltCom(op, nome, Nenhum, Nenhum, r.erro, Nenhum)

\* carteira.adicionar_investimento(investimento)
Adicionar(investimento) ==
    /\ nops < MaxOps
    /\ AposEdicao("adicionar_investimento", investimento.nome,
                  AdicionarInvestimento(carteira, invs, investimento))
    /\ nops' = nops + 1
    /\ UNCHANGED <<gm, motor>>

\* carteira.remover_investimento(nome)
Remover(nome) ==
    /\ nops < MaxOps
    /\ AposEdicao("remover_investimento", nome,
                  RemoverInvestimento(carteira, invs, nome))
    /\ nops' = nops + 1
    /\ UNCHANGED <<gm, motor>>

AposConsulta(op, d0, d1, r) ==
    ult' = UltCom(op, "", d0, d1, r.erro, r.valor)

\* carteira.valor_total(data)
ChamarValorTotal(data) ==
    /\ nops < MaxOps
    /\ AposConsulta("valor_total", data, data, ValorTotal(carteira, data))
    /\ nops' = nops + 1
    /\ UNCHANGED <<gm, invs, carteira, motor>>

NextGestao ==
    \/ \E investimento \in CatalogoGestao : Adicionar(investimento)
    \/ \E nome \in NomesRemover : Remover(nome)
    \/ \E d0 \in JanelasGestaoInicio, d1 \in JanelasGestaoFim : Simular(d0, d1)
    \/ \E data \in DatasConsulta : ChamarValorTotal(data)

SpecGestao == InitGestao /\ [][NextGestao]_vars

(***************************************************************************)
(* The same portfolios, simulated and asked for their rentability.         *)
(***************************************************************************)
DatasRentabilidadePeriodo == DatasConsulta \ {Nenhum}

AposRentabilidadePeriodo(data_inicio, data_fim, r) ==
    ult' = UltCom("rentabilidade_periodo", "", data_inicio, data_fim, r.erro, r)

\* carteira.rentabilidade_periodo(data_inicio, data_fim)
ChamarRentabilidadePeriodo(data_inicio, data_fim) ==
    /\ nops < MaxOps
    /\ AposRentabilidadePeriodo(data_inicio, data_fim,
           RentabilidadePeriodo(carteira, data_inicio, data_fim))
    /\ nops' = nops + 1
    /\ UNCHANGED <<gm, invs, carteira, motor>>

NextConsulta ==
    \/ \E d0 \in JanelasGestaoInicio, d1 \in JanelasGestaoFim : Simular(d0, d1)
    \/ \E d0 \in DatasRentabilidadePeriodo, d1 \in DatasRentabilidadePeriodo :
           ChamarRentabilidadePeriodo(d0, d1)

SpecConsulta == InitGestao /\ [][NextConsulta]_vars

(***************************************************************************)
(* One instrument alone, of every kind of CatalogoA, valuated by direct    *)
(* calls of simular_mes and simular_periodo.                               *)
(***************************************************************************)
InitInv ==
    /\ gm = GmInicial
    /\ invs \in {[n \in {"A"} |-> Investimento(ca)] : ca \in CatalogoA}
    /\ carteira = [investimentos |-> <<>>, resultado |-> SemResultado]
    /\ ult = Ult("init", "", Nenhum, Nenhum, FALSE, <<>>, <<>>)
    /\ nops = 0
    /\ motor = MotorSemUso

NextInv ==
    \/ \E d \in MesesDiretos : ChamarSimularMes("A", d)
    \/ \E d0 \in JanelasInicio, d1 \in JanelasFimPeriodo :
           ChamarSimularPeriodo("A", d0, d1)

SpecInv == InitInv /\ [][NextInv]_vars

(***************************************************************************)
(* One instrument alone, valuated by direct calls and asked for its        *)
(* rentability.                                                            *)
(***************************************************************************)
\* the dates calcular_rentabilidade is called with; Nenhum is an omitted one
DatasRentabilidade == MesesDiretos \cup {Nenhum}

\* invs[nome].calcular_rentabilidade(data_inicio, data_fim)
AposRentabilidade(nome, data_inicio, data_fim, r) ==
    ult' = UltCom("calcular_rentabilidade", nome, data_inicio, data_fim, r.erro, r)

ChamarCalcularRentabilidade(nome, data_inicio, data_fim) ==
    /\ nops < MaxOps
    /\ AposRentabilidade(nome, data_inicio, data_fim,
           CalcularRentabilidade(invs[nome], data_inicio, data_fim))
    /\ nops' = nops + 1
    /\ UNCHANGED <<gm, invs, carteira, motor>>

NextRentabilidade ==
    \/ \E d \in MesesDiretos : ChamarSimularMes("A", d)
    \/ \E d0 \in JanelasInicio, d1 \in JanelasFimPeriodo :
           ChamarSimularPeriodo("A", d0, d1)
    \/ \E d0 \in DatasRentabilidade, d1 \in DatasRentabilidade :
           ChamarCalcularRentabilidade("A", d0, d1)

SpecRentabilidade == InitInv /\ [][NextRentabilidade]_vars

(***************************************************************************)
(* One instrument alone, valuated by simular_periodo over windows that     *)
(* begin or end on any day of a month.                                     *)
(***************************************************************************)
JanelasPeriodoInicio == JanelasInicio \cup {Date(2023, 11, 15)}
JanelasPeriodoFim == JanelasFimPeriodo \cup {Date(2023, 11, 30), Date(2023, 12, 15)}

NextPeriodo ==
    \/ \E d \in MesesDiretos : ChamarSimularMes("A", d)
    \/ \E d0 \in JanelasPeriodoInicio, d1 \in JanelasPeriodoFim :
           ChamarSimularPeriodo("A", d0, d1)

SpecPeriodo == InitInv /\ [][NextPeriodo]_vars

(***************************************************************************)
(* Instruments constructed with valid and invalid parameters: the variable *)
(* "A" holds the last one constructed.                                     *)
(***************************************************************************)
\* coupon-month arguments: no pair, pairs of equal months and pairs whose
\* months differ by 5, 6 or 7, inside and outside 1..12
MesesCandidatos ==
    {<<>>, <<1>>, <<1, 7, 1>>}
    \cup {m \in (0 .. 13) \X (0 .. 13) : Abs(m[1] - m[2]) \in {0, 5, 6, 7}}

\* (data_inicio, data_fim): before, equal, after
DatasCandidatas ==
    {<<Date(2023, 11, 1), Date(2024, 1, 1)>>, <<Date(2023, 11, 1), Date(2023, 11, 1)>>,
     <<Date(2023, 12, 1), Date(2023, 11, 30)>>}

\* (indexador, operador, taxa, ipca_padrao, cdi_padrao): every combination
\* of an indexation kind, an operator and a rate that is zero, positive or
\* negative
TiposCandidatos ==
    {<<i, o, t * Escala, 0, 0>> :
        i \in {SemValor, "PREFIXADO", "IPCA", "CDI", "TESTE"},
        o \in {SemValor, ADITIVO, MULTIPLICADO},
        t \in {0, 6, -6}}

ParametrosConstrutor ==
    {Config("A", 100000, <<"PREFIXADO", SemValor, 12 * Escala, 0, 0>>,
            d[1], d[2], TRUE, m) :
        d \in DatasCandidatas, m \in MesesCandidatos}
    \cup
    {Config("A", 100000, t, Date(2023, 11, 1), Date(2024, 1, 1), FALSE, <<1, 7>>) :
        t \in TiposCandidatos}

InitConstrutor ==
    /\ gm = GmInicial
    /\ invs = DictVazio
    /\ carteira = [investimentos |-> <<>>, resultado |-> SemResultado]
    /\ ult = Ult("init", "", Nenhum, Nenhum, FALSE, <<>>, <<>>)
    /\ nops = 0
    /\ motor = MotorSemUso

\* A = Investimento(...): the variable is assigned when the call returns
AposConstruir(cfg, r) ==
    /\ invs' = IF r.erro THEN invs ELSE DictSet(invs, cfg.nome, r.inv[1])
    /\ ult' = UltCom("Investimento", cfg.nome, cfg.data_inicio, cfg.data_fim,
                     r.erro, cfg)

Construir(cfg) ==
    /\ nops < MaxOps
    /\ AposConstruir(cfg, NovoInvestimento(cfg))
    /\ nops' = nops + 1
    /\ UNCHANGED <<gm, carteira, motor>>

NextConstrutor == \E cfg \in ParametrosConstrutor : Construir(cfg)

SpecConstrutor == InitConstrutor /\ [][NextConstrutor]_vars

(***************************************************************************)
(* An InvestimentoIPCA whose index source is replaced and read.            *)
(***************************************************************************)
\* the mappings given as index source: any of the months of November 2023
\* to January 2024 with 0.2% or 0.6%
FontesCandidatas ==
    UNION {[D -> {20, 60}] : D \in SUBSET {Date(2023, 11, 1), Date(2023, 12, 1),
                                           Date(2024, 1, 1)}}

\* the dates the index is asked for
DatasIndexador ==
    {Date(2023, 11, 1), Date(2023, 12, 1), Date(2023, 12, 15), Date(2024, 1, 1),
     Date(2024, 2, 1)}

InitFonte ==
    /\ gm = GmInicial
    /\ invs \in {[n \in {"A"} |->
                     InvestimentoIPCA("A", 100000, Date(2023, 11, 1), Date(2024, 2, 1),
                                      600, TRUE, f)] : f \in FontesCandidatas}
    /\ carteira = [investimentos |-> <<>>, resultado |-> SemResultado]
    /\ ult = Ult("init", "", Nenhum, Nenhum, FALSE, <<>>, <<>>)
    /\ nops = 0
    /\ motor = MotorSemUso

\* invs[nome].definir_fonte_ipca(fonte_ipca)
AposDefinirFonte(nome, fonte_ipca, inv) ==
    /\ invs' = [invs EXCEPT ![nome] = inv]
    /\ ult' = UltCom("definir_fonte_ipca", nome, Nenhum, Nenhum, FALSE, fonte_ipca)

ChamarDefinirFonteIPCA(nome, fonte_ipca) ==
    /\ nops < MaxOps
    /\ AposDefinirFonte(nome, fonte_ipca, DefinirFonteIPCA(invs[nome], fonte_ipca))
    /\ nops' = nops + 1
    /\ UNCHANGED <<gm, carteira, motor>>

\* invs[nome].obter_valor_indexador(data)
ChamarObterValorIndexador(nome, data) ==
    /\ nops < MaxOps
    /\ ult' = UltCom("obter_valor_indexador", nome, data, data, FALSE,
                     ObterValorIndexador(invs[nome], data))
    /\ nops' = nops + 1
    /\ UNCHANGED <<gm, invs, carteira, motor>>

NextFonte ==
    \/ \E f \in FontesCandidatas : ChamarDefinirFonteIPCA("A", f)
    \/ \E d \in DatasIndexador : ChamarObterValorIndexador("A", d)
    \/ \E d \in MesesDiretos : ChamarSimularMes("A", d)

SpecFonte == InitFonte /\ [][NextFonte]_vars

(***************************************************************************)
(* obter_taxa_mensal alone, on an inflation-linked additive instrument of  *)
(* the base class and of InvestimentoIPCA.                                 *)
(***************************************************************************)
\* index sources with months of no inflation and of 3% a month
FontesTaxa ==
    UNION {[D -> {0, 300}] : D \in SUBSET {Date(2023, 11, 1), Date(2023, 12, 1),
                                           Date(2024, 1, 1)}}

InitTaxa ==
    /\ gm = GmInicial
    /\ invs \in
          {[n \in {"A"} |->
               InvestimentoIPCA("A", 100000, Date(2023, 11, 1), Date(2024, 2, 1),
                                600, TRUE, f)] : f \in FontesTaxa}
          \cup
          {[n \in {"A"} |->
               Investimento(Config("A", 100000, <<"IPCA", ADITIVO, 6 * Escala, i, 0>>,
                                   Date(2023, 11, 1), Date(2024, 2, 1), TRUE,
                                   <<1, 7>>))] : i \in {0, 600}}
    /\ carteira = [investimentos |-> <<>>, resultado |-> SemResultado]
    /\ ult = Ult("init", "", Nenhum, Nenhum, FALSE, <<>>, <<>>)
    /\ nops = 0
    /\ motor = MotorSemUso

\* invs[nome].obter_taxa_mensal(data)
ChamarObterTaxaMensal(nome, data) ==
    /\ nops < MaxOps
    /\ ult' = UltCom("obter_taxa_mensal", nome, data, data, FALSE,
                     ObterTaxaMensal(invs[nome], data))
    /\ nops' = nops + 1
    /\ UNCHANGED <<gm, invs, carteira, motor>>

NextTaxa == \E d \in DatasIndexador : ChamarObterTaxaMensal("A", d)

SpecTaxa == InitTaxa /\ [][NextTaxa]_vars

(***************************************************************************)
(* The month generators alone: both are called with the same dates.        *)
(***************************************************************************)
InitMeses ==
    /\ gm \in {[GmInicial EXCEPT !.d0 = p[1], !.d1 = p[2]] :
                  p \in {q \in DatasGerador \X DatasGerador : DataLE(q[1], q[2])}}
    /\ invs = [n \in {} |-> 0]
    /\ carteira = [investimentos |-> <<>>, resultado |-> SemResultado]
    /\ ult = Ult("init", "", Nenhum, Nenhum, FALSE, <<>>, <<>>)
    /\ nops = 0
    /\ motor = MotorSemUso

\* carteira._gerar_meses(d0, d1) and investimento._gerar_meses(d0, d1)
GerarMeses ==
    /\ gm.carteira = <<>>
    /\ gm' = [gm EXCEPT
                !.carteira = Carteira_gerar_meses(gm.d0, gm.d1),
                !.investimento = Investimento_gerar_meses(gm.d0, gm.d1)]
    /\ UNCHANGED <<invs, carteira, ult, nops, motor>>

NextMeses == GerarMeses

SpecMeses == InitMeses /\ [][NextMeses]_vars

(***************************************************************************)
(* Two inflation-linked instruments with semiannual coupons, alike but for *)
(* the annual rate (6% for "A", 12% for "B"), held in one portfolio and    *)
(* valuated by Carteira.simular over the same months.                      *)
(***************************************************************************)
\* the index sources both instruments read: none (the default of 0.4% a
\* month), or 0.2% for December 2023
FontesIPCA == {DictVazio, [d \in {Date(2023, 12, 1)} |-> 20]}

ParesIPCA ==
    {[n \in {"A", "B"} |->
         InvestimentoIPCA(n, x[1], x[2], x[3], IF n = "A" THEN 600 ELSE 1200, TRUE, x[4])] :
        x \in {100000, 50000} \X DatasInicio \X {Date(2024, 1, 1), Date(2024, 2, 1)}
                  \X FontesIPCA}
    \cup
    {[n \in {"A", "B"} |->
         Investimento(Config(n, x[1],
             <<"IPCA", ADITIVO, (IF n = "A" THEN 6 ELSE 12) * Escala, 600, 0>>,
             x[2], x[3], TRUE, x[4]))] :
        x \in {100000, 50000} \X DatasInicio \X {Date(2024, 1, 1), Date(2024, 2, 1)}
                  \X MesesPagamento}

InitPar ==
    /\ gm = GmInicial
    /\ invs \in ParesIPCA
    /\ carteira = [investimentos |-> <<"A", "B">>, resultado |-> SemResultado]
    /\ ult = Ult("init", "", Nenhum, Nenhum, FALSE, <<>>, <<>>)
    /\ nops = 0
    /\ motor = MotorSemUso

NextPar == \E d0 \in JanelasInicio, d1 \in JanelasFim : Simular(d0, d1)

SpecPar == InitPar /\ [][NextPar]_vars

(***************************************************************************)
(* Properties.                                                             *)
(***************************************************************************)
\* months counted from year 0, and back
IndiceMes(d) == d[1] * 12 + (d[2] - 1)
PrimeiroDia(i) == Date(i \div 12, (i % 12) + 1, 1)

\* the first-of-month dates from the month of d0 through the month of d1
MesesDoIntervalo(d0, d1) ==
    [k \in 1 .. (IndiceMes(d1) - IndiceMes(d0) + 1) |->
        PrimeiroDia(IndiceMes(d0) + k - 1)]

RECURSIVE SomaDe(_, _)
SomaDe(f, S) ==
    IF S = {} THEN 0
    ELSE LET x == CHOOSE y \in S : TRUE
         IN  f[x][1] + SomaDe(f, S \ {x})

\* C9: for every D0 <= D1, of any day of the month, both month generators
\* return exactly the first-of-month dates from the month of D0 through the
\* month of D1 inclusive, in increasing order, each one calendar month after
\* the previous (December is followed by January of the next year), and the
\* two generators return the same list.
C9_GeradoresDeMeses ==
    gm.carteira # <<>> =>
        /\ gm.carteira = MesesDoIntervalo(gm.d0, gm.d1)
        /\ gm.investimento = MesesDoIntervalo(gm.d0, gm.d1)
        /\ gm.carteira = gm.investimento

\* the names of a portfolio's instruments, and the rows of its last result
NomesDaCarteira == {carteira.investimentos[i] : i \in DOMAIN carteira.investimentos}
Linhas == carteira.resultado.resultado_mensal

\* C1: after Carteira.simular, for every simulated month the "Total" cell,
\* and the consolidated total of that month, equal the sum of the cells of
\* exactly the instruments whose cell is defined that month; instruments not
\* yet started or whose valuation failed are excluded.
C1_TotalSomaCelulasDefinidas ==
    ult.op = "simular" =>
        /\ DOMAIN Linhas = {ult.meses[j] : j \in DOMAIN ult.meses}
        /\ \A mes \in DOMAIN Linhas :
               LET definidos == {n \in NomesDaCarteira : Linhas[mes][n] # NaN}
               IN  /\ DOMAIN Linhas[mes] = NomesDaCarteira \cup {"Total"}
                   /\ Linhas[mes]["Total"] = Celula(SomaDe(Linhas[mes], definidos))
                   /\ carteira.resultado.resultado_consolidado[mes]
                          = SomaDe(Linhas[mes], definidos)

\* a run with a month where B has not started, and a later month where the
\* valuation of A failed while B is worth something
C1_Witness ==
    /\ ult.op = "simular"
    /\ \E m1, m2 \in DOMAIN Linhas :
           /\ DataLT(m1, m2)
           /\ Linhas[m1]["B"] = NaN /\ Linhas[m1]["A"] # NaN
           /\ Linhas[m1]["Total"] = Linhas[m1]["A"]
           /\ Linhas[m2]["A"] = NaN /\ Linhas[m2]["B"] # NaN
           /\ Linhas[m2]["Total"][1] > 0

\* the calls of simular_mes logged for instrument n in the last run
ChamadasDe(n) ==
    {i \in DOMAIN ult.eventos :
        ult.eventos[i].tipo = "simular_mes" /\ ult.eventos[i].nome = n}

\* the positions at which the Total of month mes was stored in the last run
TotaisDe(mes) ==
    {i \in DOMAIN ult.eventos :
        ult.eventos[i].tipo = "total" /\ ult.eventos[i].mes = mes}

\* C6: during Carteira.simular, simular_mes of each started instrument is
\* invoked exactly once per generated month, in strictly increasing month
\* order, and all valuations of a month are finished before that month's
\* Total is stored.
C6_UmaChamadaPorMesEmOrdem ==
    ult.op = "simular" =>
        /\ \A n \in NomesDaCarteira, j \in DOMAIN ult.meses :
               Cardinality({i \in ChamadasDe(n) : ult.eventos[i].mes = ult.meses[j]})
                   = IF DataLE(invs[n].data_inicio, ult.meses[j]) THEN 1 ELSE 0
        /\ \A n \in NomesDaCarteira : \A i1, i2 \in ChamadasDe(n) :
               i1 < i2 => DataLT(ult.eventos[i1].mes, ult.eventos[i2].mes)
        /\ \A j \in DOMAIN ult.meses : Cardinality(TotaisDe(ult.meses[j])) = 1
        /\ \A i \in DOMAIN ult.eventos :
               ult.eventos[i].tipo = "simular_mes" =>
                   \A t \in TotaisDe(ult.eventos[i].mes) : i < t
        /\ \A i \in DOMAIN ult.eventos :
               ult.eventos[i].mes \in {ult.meses[j] : j \in DOMAIN ult.meses}

\* a run of three months in which both instruments are valuated and one of
\* them starts after the first month
C6_Witness ==
    /\ ult.op = "simular"
    /\ Len(ult.meses) >= 3
    /\ Cardinality(ChamadasDe("A")) >= 3
    /\ Cardinality(ChamadasDe("B")) >= 2
    /\ Cardinality(ChamadasDe("B")) < Cardinality(ChamadasDe("A"))

\* C10 as stated: in Carteira.simular an instrument's cell is undefined if
\* the month precedes the instrument's start date and defined for every
\* month from its start date onward.
C10_CelulaDefinidaDesdeOInicio ==
    ult.op = "simular" =>
        \A mes \in DOMAIN Linhas, n \in NomesDaCarteira :
            (Linhas[mes][n] = NaN) <=> DataLT(mes, invs[n].data_inicio)

\* the valuation of month mes raises for instrument n: the month is after
\* the start date and the monthly rate cannot be computed
ValuacaoFalha(n, mes) ==
    DataLT(invs[n].data_inicio, mes) /\ ObterTaxaMensalFalha(invs[n], mes)

\* C10 amended: the cell is undefined exactly when the month precedes the
\* instrument's start date or the valuation of that month raised, and it
\* is defined in every other month.
C10_CelulaDefinidaSalvoFalha ==
    ult.op = "simular" =>
        \A mes \in DOMAIN Linhas, n \in NomesDaCarteira :
            (Linhas[mes][n] = NaN)
                <=> (DataLT(mes, invs[n].data_inicio) \/ ValuacaoFalha(n, mes))

\* a run with a cell before the start, a cell at the start, a cell of a
\* failed valuation and a cell of a successful valuation after the start
C10_Witness ==
    /\ ult.op = "simular"
    /\ \E mes \in DOMAIN Linhas :
           DataLT(mes, invs["B"].data_inicio) /\ Linhas[mes]["B"] = NaN
    /\ \E mes \in DOMAIN Linhas :
           mes = invs["B"].data_inicio /\ Linhas[mes]["B"] # NaN
    /\ \E mes \in DOMAIN Linhas :
           ValuacaoFalha("A", mes) /\ Linhas[mes]["A"] = NaN
    /\ \E mes \in DOMAIN Linhas :
           DataLT(invs["B"].data_inicio, mes) /\ Linhas[mes]["B"] # NaN

\* the months instrument n was valuated for by the last operation, when it
\* was a direct call that returned normally
MesesValuados(n) ==
    IF ult.nome # n \/ ult.erro THEN {}
    ELSE IF ult.op = "simular_mes" THEN {ult.d0}
    ELSE IF ult.op = "simular_periodo"
    THEN LET meses == Investimento_gerar_meses(ult.d0, ult.d1)
         IN  {meses[k] : k \in DOMAIN meses}
    ELSE {}

\* the calendar month of d is one of the configured coupon months of inv
EhMesConfigurado(inv, d) ==
    \E k \in DOMAIN inv.meses_pagamento_juros : d[2] = inv.meses_pagamento_juros[k]

\* C2 as stated: an instrument with semiannual payments pays a coupon in
\* every simulated month whose calendar month is a configured coupon month
\* and in the maturity month, and in no other month.
C2_CupomNosMesesConfigurados ==
    \A n \in DOMAIN invs :
        invs[n].juros_semestrais =>
            \A d \in MesesValuados(n) :
                invs[n].historico[d].juros_pagos
                    <=> (EhMesConfigurado(invs[n], d) \/ EhVencimento(invs[n], d))

\* C2 amended: the coupon is paid in those months except when the month
\* valuated is the instrument's start date, which never pays.
C2_CupomSalvoNaDataDeInicio ==
    \A n \in DOMAIN invs :
        invs[n].juros_semestrais =>
            \A d \in MesesValuados(n) :
                invs[n].historico[d].juros_pagos
                    <=> /\ d # invs[n].data_inicio
                        /\ EhMesConfigurado(invs[n], d) \/ EhVencimento(invs[n], d)

\* a period with an interim coupon in a configured month, a coupon in a
\* maturity month that is not a configured month, and an unpaid start date
C2_Witness ==
    LET inv == invs["A"]
    IN  /\ inv.juros_semestrais
        /\ ult.op = "simular_periodo" /\ ~ult.erro
        /\ inv.data_inicio \in MesesValuados("A")
        /\ ~inv.historico[inv.data_inicio].juros_pagos
        /\ \E d \in MesesValuados("A") :
               /\ EhMesConfigurado(inv, d) /\ ~EhVencimento(inv, d)
               /\ inv.historico[d].juros_pagos
        /\ \E d \in MesesValuados("A") :
               /\ ~EhMesConfigurado(inv, d) /\ EhVencimento(inv, d)
               /\ inv.historico[d].juros_pagos

\* C3: for every valid instrument, of any kind, simular_mes(start date)
\* records a snapshot whose value equals the principal, with interest 0,
\* monthly rate 0 and corrected principal equal to the principal.
C3_PrimeiroMesEhOPrincipal ==
    \A n \in DOMAIN invs :
        (ult.op = "simular_mes" /\ ult.nome = n /\ ~ult.erro
            /\ ult.d0 = invs[n].data_inicio) =>
            LET r == invs[n].historico[invs[n].data_inicio]
            IN  /\ r.valor = invs[n].valor_principal
                /\ r.juros = 0
                /\ r.taxa_mensal = 0
                /\ r.valor_corrigido = invs[n].valor_principal

\* C4: an instrument without semiannual payments, simulated month by month
\* from its start to its maturity, has a maturity snapshot with juros_pagos
\* true, a payout equal to the principal plus all unpaid accrued interest
\* (the value it would otherwise have carried) and a running value of 0;
\* this holds for every kind, the additive IPCA kind included.
C4_VencimentoPagaTudo ==
    \A n \in DOMAIN invs :
        (nops = 1 /\ ult.op = "simular_periodo" /\ ult.nome = n /\ ~ult.erro
            /\ ult.d0 = invs[n].data_inicio /\ EhVencimento(invs[n], ult.d1)
            /\ ~invs[n].juros_semestrais) =>
            LET m == invs[n].historico[ult.d1]
                ant == invs[n].historico[PrimeiroDia(IndiceMes(ult.d1) - 1)]
            IN  /\ m.juros_pagos
                /\ m.valor = 0
                /\ m.valor_juros_pagos
                       = invs[n].valor_principal + ant.juros_acumulados + m.juros
                /\ m.valor_juros_pagos = ant.valor + m.juros

\* what the maturity snapshot r of a semiannual instrument is claimed to
\* pay: the principal (the corrected principal for the additive IPCA kind)
\* plus the coupon component of its kind
PagamentoFinalComCupom(inv, r) ==
    IF inv.indexador = "PREFIXADO"
    THEN inv.valor_principal + CalcularCupomPrefixado(inv.valor_principal)
    ELSE IF EhIPCAAditivo(inv)
    THEN r.valor_corrigido
             + (r.valor_corrigido * (taxa_cupom_ipca \div 100)) \div Escala
    ELSE inv.valor_principal + r.juros_acumulados

\* C5 as stated: for an instrument with semiannual payments the snapshot of
\* the maturity month has value 0 and a payout equal to the principal (the
\* corrected principal for IPCA+) plus the coupon component.
C5_VencimentoComCupom ==
    \A n \in DOMAIN invs :
        invs[n].juros_semestrais =>
            \A d \in MesesValuados(n) :
                EhVencimento(invs[n], d) =>
                    /\ invs[n].historico[d].valor = 0
                    /\ invs[n].historico[d].juros_pagos
                    /\ invs[n].historico[d].valor_juros_pagos
                           = PagamentoFinalComCupom(invs[n], invs[n].historico[d])

\* C5 amended: the same, for a maturity month valuated at a date other than
\* the instrument's start date.
C5_VencimentoComCupomAposInicio ==
    \A n \in DOMAIN invs :
        invs[n].juros_semestrais =>
            \A d \in MesesValuados(n) :
                (EhVencimento(invs[n], d) /\ d # invs[n].data_inicio) =>
                    /\ invs[n].historico[d].valor = 0
                    /\ invs[n].historico[d].juros_pagos
                    /\ invs[n].historico[d].valor_juros_pagos
                           = PagamentoFinalComCupom(invs[n], invs[n].historico[d])

\* an inflation-linked semiannual instrument valuated through its maturity
\* month, whose corrected principal has grown above the principal
C5_Witness ==
    LET inv == invs["A"]
    IN  /\ inv.juros_semestrais /\ EhIPCAAditivo(inv)
        /\ \E d \in MesesValuados("A") :
               /\ EhVencimento(inv, d) /\ d # inv.data_inicio
               /\ inv.historico[d].valor_corrigido > inv.valor_principal
               /\ inv.historico[d].valor_juros_pagos > inv.historico[d].valor_corrigido
               /\ inv.historico[d].valor = 0

\* C7: in any sequence of valuation calls, when simular_mes valuates a
\* month d after the start date, the base snapshot it reads is the stored
\* snapshot of the calendar month immediately preceding d.  (Stated for the
\* valuations that stored a snapshot.)
C7_BaseEhOMesAnterior ==
    \A n \in DOMAIN invs : \A l \in invs[n].leituras :
        l[1] \in DOMAIN invs[n].historico
            => IndiceMes(l[2]) = IndiceMes(l[1]) - 1

\* the step leaves every stored snapshot of instrument n as it was and adds
\* only months later than all those stored
SoEstende(n) ==
    /\ \A d \in DOMAIN invs[n].historico :
           /\ d \in DOMAIN invs'[n].historico
           /\ invs'[n].historico[d] = invs[n].historico[d]
    /\ \A d \in DOMAIN invs'[n].historico \ DOMAIN invs[n].historico :
           \A e \in DOMAIN invs[n].historico : DataLT(e, d)

\* the objects with their histories emptied
Limpos == [n \in DOMAIN invs |-> [invs[n] EXCEPT !.historico = DictVazio]]

\* the step is a run of Carteira.simular that left instrument n the history
\* the run builds from an emptied history
RecomecaLimpo(n) ==
    /\ ult'.op = "simular"
    /\ invs'[n].historico
           = CarteiraSimular(carteira.investimentos, Limpos,
                             ult'.d0, ult'.d1).invs[n].historico

\* C8: an instrument's history is only ever extended with later months: no
\* stored snapshot is replaced or altered, except that the history is
\* cleared at the start of a fresh simulation run.
C8_HistoricoSoCresce ==
    [][\A n \in DOMAIN invs : SoEstende(n) \/ RecomecaLimpo(n)]_vars

\* the step is a call of one of the two scenario operations of the motor
PassoDeCenario == ult'.op \in {"simular_multiplos_cenarios", "simular_cenario"}

\* C11: running scenarios on clones (simular_multiplos_cenarios for any
\* list of scenario names, simular_cenario for any Cenario) leaves every
\* instrument of the original portfolio unchanged (history, accrued
\* interest, corrected principal, last coupon date, rate and index source)
\* and does not replace the original portfolio's stored result.
C11_CenariosNaoTocamOOriginal ==
    [][PassoDeCenario =>
          /\ carteira' = carteira
          /\ DOMAIN invs' = DOMAIN invs
          /\ \A n \in DOMAIN invs :
                 /\ invs'[n].historico = invs[n].historico
                 /\ invs'[n].juros_acumulados = invs[n].juros_acumulados
                 /\ invs'[n].valor_corrigido = invs[n].valor_corrigido
                 /\ invs'[n].principal_inflacionado = invs[n].principal_inflacionado
                 /\ invs'[n].ultimo_pagamento_juros = invs[n].ultimo_pagamento_juros
                 /\ invs'[n].taxa = invs[n].taxa
                 /\ invs'[n].fonte_ipca = invs[n].fonte_ipca]_vars

\* two scenarios were run, each over at least two months, one of them with
\* an index source, on a portfolio that had been simulated before
C11_Witness ==
    /\ ult.op = "simular_multiplos_cenarios"
    /\ DOMAIN ult.retorno = {"base", "otimista"}
    /\ ult.retorno["base"] # ult.retorno["otimista"]
    /\ \A c \in DOMAIN ult.retorno : Len(ult.retorno[c]) >= 2
    /\ ~carteira.resultado.nulo
    /\ \A n \in DOMAIN invs : Cardinality(DOMAIN invs[n].historico) >= 2

\* C12: after Carteira.simular(start, end), for any start <= end,
\* valor_total(start) and valor_total(end) succeed and return exactly the
\* "Total" of the first and of the last row of to_dataframe.
C12_ValorTotalDasPontas ==
    (ult.op = "valor_total" /\ ~carteira.resultado.nulo) =>
        /\ ult.d0 = carteira.resultado.data_inicio =>
               /\ ~ult.erro
               /\ ult.retorno = ToDataframe(carteira)[1].colunas["Total"]
        /\ ult.d0 = carteira.resultado.data_fim =>
               /\ ~ult.erro
               /\ ult.retorno
                      = ToDataframe(carteira)[Len(ToDataframe(carteira))].colunas["Total"]

\* the names of seq are pairwise different
SemRepetidos(seq) ==
    \A i, j \in DOMAIN seq : seq[i] = seq[j] => i = j

\* C16: adicionar_investimento with an instrument whose name is already a
\* key fails and leaves the mapping unchanged; otherwise it adds exactly
\* that one entry at the end; so the keys stay unique and in insertion
\* order.
C16_AdicionarInvestimento ==
    [][ult'.op = "adicionar_investimento" =>
          /\ IF TemNome(carteira, ult'.nome)
             THEN ult'.erro /\ carteira' = carteira /\ invs' = invs
             ELSE /\ ~ult'.erro
                  /\ carteira'.investimentos
                         = Append(carteira.investimentos, ult'.nome)
                  /\ carteira'.resultado = carteira.resultado
                  /\ DOMAIN invs' = DOMAIN invs \cup {ult'.nome}
                  /\ \A n \in DOMAIN invs : invs'[n] = invs[n]
                  /\ invs'[ult'.nome] \in CatalogoGestao
                  /\ invs'[ult'.nome].nome = ult'.nome
          /\ SemRepetidos(carteira'.investimentos)
          /\ DOMAIN invs' = {carteira'.investimentos[i] :
                                i \in DOMAIN carteira'.investimentos}]_vars

\* an instrument was added after another one, and another add was refused
C16_Witness ==
    /\ ult.op = "adicionar_investimento"
    /\ ult.erro
    /\ nops = 2
    /\ Len(carteira.investimentos) = 2
    /\ carteira.investimentos = <<"B", "A">>

\* C17: remover_investimento with a name that is not a key fails and leaves
\* the mapping unchanged; with a present name it removes exactly that entry
\* and no other.
C17_RemoverInvestimento ==
    [][ult'.op = "remover_investimento" =>
          IF ~TemNome(carteira, ult'.nome)
          THEN ult'.erro /\ carteira' = carteira /\ invs' = invs
          ELSE /\ ~ult'.erro
               /\ carteira'.resultado = carteira.resultado
               /\ DOMAIN invs' = DOMAIN invs \ {ult'.nome}
               /\ \A n \in DOMAIN invs' : invs'[n] = invs[n]
               /\ ~TemNome(carteira', ult'.nome)
               /\ Len(carteira'.investimentos) = Len(carteira.investimentos) - 1
               /\ \A i, j \in DOMAIN carteira.investimentos :
                      (i < j /\ carteira.investimentos[i] # ult'.nome
                             /\ carteira.investimentos[j] # ult'.nome) =>
                          \E a, b \in DOMAIN carteira'.investimentos :
                              /\ a < b
                              /\ carteira'.investimentos[a] = carteira.investimentos[i]
                              /\ carteira'.investimentos[b] = carteira.investimentos[j]]_vars

\* the first of two instruments was removed, then an absent name refused
C17_Witness ==
    /\ ult.op = "remover_investimento"
    /\ ult.erro
    /\ nops = 2
    /\ Len(carteira.investimentos) = 1
    /\ DOMAIN invs = {carteira.investimentos[1]}

\* the months of the last Carteira.simular
MesesSimulados ==
    Carteira_gerar_meses(carteira.resultado.data_inicio, carteira.resultado.data_fim)

\* C20: valor_total fails if the portfolio was never simulated or if the
\* given date is not one of the simulated months; with no date it returns
\* the consolidated total of the last simulated month; with a simulated
\* month it returns that month's consolidated total.
C20_ValorTotal ==
    ult.op = "valor_total" =>
        IF carteira.resultado.nulo THEN ult.erro
        ELSE IF ult.d0 = Nenhum
        THEN /\ ~ult.erro
             /\ ult.retorno = Algum(carteira.resultado.resultado_consolidado[
                                        MesesSimulados[Len(MesesSimulados)]])
        ELSE IF \E k \in DOMAIN MesesSimulados : MesesSimulados[k] = ult.d0
        THEN /\ ~ult.erro
             /\ ult.retorno = Algum(carteira.resultado.resultado_consolidado[ult.d0])
        ELSE ult.erro

\* valor_total() without a date returned the total of the last of several
\* months, which differs from the total of the first
C20_Witness ==
    /\ ult.op = "valor_total" /\ ult.d0 = Nenhum /\ ~ult.erro
    /\ ~carteira.resultado.nulo
    /\ Len(MesesSimulados) >= 2
    /\ ult.retorno[1] > 0
    /\ ult.retorno[1] # carteira.resultado.resultado_consolidado[MesesSimulados[1]]

(***************************************************************************)
\* C13: of two inflation-linked instruments with semiannual coupons that
\* differ in the annual rate alone and are valuated over the same months
\* with the same index values, the one with the higher rate ("B") pays a
\* strictly greater coupon in every month in which both pay one.
MesesDeCupomDosDois ==
    {d \in (DOMAIN invs["A"].historico) \cap (DOMAIN invs["B"].historico) :
        invs["A"].historico[d].juros_pagos /\ invs["B"].historico[d].juros_pagos}

C13_TaxaMaiorPagaMais ==
    \A d \in MesesDeCupomDosDois :
        invs["B"].historico[d].valor_juros_pagos
            > invs["A"].historico[d].valor_juros_pagos

(***************************************************************************)
\* the snapshots of instrument n in the months that are configured coupon
\* months and not the maturity month, when n is inflation-linked additive
\* with semiannual coupons
MesesDeCupomIntermediario(n) ==
    IF EhIPCAAditivo(invs[n]) /\ invs[n].juros_semestrais
    THEN {d \in DOMAIN invs[n].historico :
             EhMesConfigurado(invs[n], d) /\ ~EhVencimento(invs[n], d)}
    ELSE {}

\* the snapshot r pays a coupon that is more than nothing and less than
\* the corrected principal it records
CupomParcial(r) ==
    /\ r.juros_pagos
    /\ r.valor_juros_pagos > 0
    /\ r.valor_juros_pagos < r.valor_corrigido

\* C14 as stated: an inflation-linked additive instrument with semiannual
\* coupons shows, in every coupon month that is not the maturity month,
\* juros_pagos true and a payout strictly between 0 and the corrected
\* principal of that month.
C14_CupomIntermediario ==
    \A n \in DOMAIN invs :
        \A d \in MesesDeCupomIntermediario(n) : CupomParcial(invs[n].historico[d])

\* C14: the same in every coupon month that is neither the maturity month
\* nor the instrument's start date, where no coupon is paid.
C14_CupomIntermediarioAposInicio ==
    \A n \in DOMAIN invs :
        \A d \in MesesDeCupomIntermediario(n) :
            d # invs[n].data_inicio => CupomParcial(invs[n].historico[d])

\* an interim coupon was paid after the start date by the last call, out of
\* a corrected principal that inflation had raised above the principal
C14_Witness ==
    /\ ult.op \in {"simular_mes", "simular_periodo"}
    /\ ~ult.erro
    /\ \E d \in MesesDeCupomIntermediario("A") :
           /\ d # invs["A"].data_inicio
           /\ d \in MesesValuados("A")
           /\ invs["A"].historico[d].valor_corrigido > invs["A"].valor_principal
           /\ invs["A"].historico[d].valor_juros_pagos > 0

(***************************************************************************)
\* the payouts instrument n recorded in the months m with d0 < m <= d1
RECURSIVE SomaDosPagamentos(_, _)
SomaDosPagamentos(n, meses) ==
    IF meses = {} THEN 0
    ELSE LET m == CHOOSE x \in meses : TRUE
         IN  invs[n].historico[m].valor_juros_pagos + SomaDosPagamentos(n, meses \ {m})

PagamentosDepoisDe(n, d0, d1) ==
    SomaDosPagamentos(n, {m \in DOMAIN invs[n].historico :
                             IndiceMes(d0) < IndiceMes(m) /\ IndiceMes(m) <= IndiceMes(d1)})

\* the last call was calcular_rentabilidade with two dates of the history
RentabilidadeNoHistorico ==
    /\ ult.op = "calcular_rentabilidade"
    /\ ult.d0 \in DOMAIN invs[ult.nome].historico
    /\ ult.d1 \in DOMAIN invs[ult.nome].historico

\* C15: calcular_rentabilidade(d0, d1) for two dates of the history returns
\* (value recorded at d1 + the payouts recorded in the months m with
\* d0 < m <= d1) / value recorded at d0 - 1; payouts recorded at d0 or
\* after d1 are not counted.
C15_RentabilidadeComCupons ==
    RentabilidadeNoHistorico =>
        /\ ~ult.erro
        /\ ult.retorno.valor
             = Algum(((invs[ult.nome].historico[ult.d1].valor
                         + PagamentosDepoisDe(ult.nome, ult.d0, ult.d1)) * Escala)
                        \div invs[ult.nome].historico[ult.d0].valor - Escala)

(***************************************************************************)
\* the step is a direct call simular_mes(d) with d before the start date
PassoAntesDoInicio ==
    /\ ult'.op = "simular_mes"
    /\ DataLT(ult'.d0, invs[ult'.nome].data_inicio)

\* C18: simular_mes(d) with d earlier than the instrument's start date
\* fails and changes nothing: the history, the accrued-interest total, the
\* corrected principal and the last-coupon date are as before the call.
C18_AntesDoInicioNadaMuda ==
    [][PassoAntesDoInicio =>
          /\ ult'.erro
          /\ DOMAIN invs' = DOMAIN invs
          /\ \A n \in DOMAIN invs :
                 /\ invs'[n].historico = invs[n].historico
                 /\ invs'[n].juros_acumulados = invs[n].juros_acumulados
                 /\ invs'[n].valor_corrigido = invs[n].valor_corrigido
                 /\ invs'[n].principal_inflacionado = invs[n].principal_inflacionado
                 /\ invs'[n].ultimo_pagamento_juros = invs[n].ultimo_pagamento_juros]_vars

\* a call before the start date was rejected on an instrument that had
\* already been valuated, paid a coupon and corrected its principal
C18_Witness ==
    /\ ult.op = "simular_mes"
    /\ ult.erro
    /\ DataLT(ult.d0, invs["A"].data_inicio)
    /\ invs["A"].historico # DictVazio
    /\ invs["A"].ultimo_pagamento_juros # Nenhum
    /\ invs["A"].principal_inflacionado > invs["A"].valor_principal

(***************************************************************************)
\* the months of instrument n the step valuated (read the history for) or
\* stored a snapshot for
MesesTocados(n) ==
    {d \in DOMAIN invs'[n].historico :
        d \notin DOMAIN invs[n].historico
            \/ invs'[n].historico[d] # invs[n].historico[d]}
    \cup {l[1] : l \in invs'[n].leituras \ invs[n].leituras}

\* C19: simular_periodo(d0, d1) fails before valuating any month, the
\* history unchanged, whenever d0 is before the instrument's start or d1 is
\* after its maturity; when it succeeds, no month later than the maturity
\* month is valuated or stored in the history.
C19_PeriodoDentroDaVigencia ==
    [][ult'.op = "simular_periodo" =>
          /\ (DataLT(ult'.d0, invs[ult'.nome].data_inicio)
                 \/ DataLT(invs[ult'.nome].data_fim, ult'.d1))
                => (ult'.erro /\ invs' = invs)
          /\ ~ult'.erro
                => \A d \in MesesTocados(ult'.nome) :
                       IndiceMes(d) <= IndiceMes(invs[ult'.nome].data_fim)]_vars

(***************************************************************************)
\* the consolidated totals of the stored result
Consolidado == carteira.resultado.resultado_consolidado

\* both dates of the last call are simulated months of a simulated portfolio
DatasSimuladas ==
    /\ ~carteira.resultado.nulo
    /\ ult.d0 \in DOMAIN Consolidado
    /\ ult.d1 \in DOMAIN Consolidado

\* C21: Carteira.rentabilidade_periodo(d0, d1) returns (total at d1 / total
\* at d0) - 1 whenever both dates are simulated months, and fails with the
\* portfolio's out-of-range error, never any other failure, when the
\* portfolio was not simulated or either date is not a simulated month.
C21_RentabilidadeDoPeriodo ==
    ult.op = "rentabilidade_periodo" =>
        IF DatasSimuladas
        THEN /\ ~ult.erro
             /\ ult.retorno.valor
                  = Algum((Consolidado[ult.d1] * Escala) \div Consolidado[ult.d0] - Escala)
        ELSE ult.erro /\ ult.retorno.excecao = "ValueError"

(***************************************************************************)
\* the date given to the call is not a key of the history of instrument n
ForaDoHistorico(n, d) == d # Nenhum /\ d \notin DOMAIN invs[n].historico

\* the step is a call of calcular_rentabilidade on an instrument without
\* history, or with a start or an end date that is not in its history
PassoSemHistorico ==
    /\ ult'.op = "calcular_rentabilidade"
    /\ \/ invs[ult'.nome].historico = DictVazio
       \/ ForaDoHistorico(ult'.nome, ult'.d0)
       \/ ForaDoHistorico(ult'.nome, ult'.d1)

\* C22: calcular_rentabilidade fails with an error, the history unchanged,
\* when the instrument has no history or when the start or the end date of
\* the window is not a key of the history.
C22_RentabilidadeForaDoHistorico ==
    [][PassoSemHistorico =>
          /\ ult'.erro
          /\ ult'.retorno.excecao = "ValueError"
          /\ \A n \in DOMAIN invs : invs'[n].historico = invs[n].historico]_vars

\* a call on a valuated instrument was rejected for its end date alone
C22_Witness ==
    /\ ult.op = "calcular_rentabilidade"
    /\ ult.erro
    /\ invs["A"].historico # DictVazio
    /\ ult.d0 \in DOMAIN invs["A"].historico
    /\ ForaDoHistorico("A", ult.d1)

(***************************************************************************)
\* the coupon sub-table of the last result
Dividendos == carteira.resultado.dividendos_recebidos

\* instrument n was valuated in month mes by the last run and its snapshot
\* of that month records a payout that is not zero
Pagou(n, mes) ==
    /\ Linhas[mes][n] # NaN
    /\ mes \in DOMAIN invs[n].historico
    /\ invs[n].historico[mes].juros_pagos
    /\ invs[n].historico[mes].valor_juros_pagos > 0

Pagadores(mes) == {n \in NomesDaCarteira : Pagou(n, mes)}

RECURSIVE SomaDosPagos(_, _)
SomaDosPagos(mes, nomes) ==
    IF nomes = {} THEN 0
    ELSE LET n == CHOOSE x \in nomes : TRUE
         IN  invs[n].historico[mes].valor_juros_pagos + SomaDosPagos(mes, nomes \ {n})

RECURSIVE SomaDosMeses(_)
SomaDosMeses(meses) ==
    IF meses = {} THEN 0
    ELSE LET mes == CHOOSE x \in meses : TRUE
         IN  SomaDosPagos(mes, Pagadores(mes)) + SomaDosMeses(meses \ {mes})

\* C23: after Carteira.simular the coupon sub-table has an entry for a
\* month and an instrument exactly when that instrument paid a nonzero
\* payout in that month; the "Total" of each listed month is the sum of the
\* month's payouts; total_dividendos is the sum of all payouts of the run.
C23_TabelaDeCupons ==
    ult.op = "simular" =>
        /\ DOMAIN Dividendos = {mes \in DOMAIN Linhas : Pagadores(mes) # {}}
        /\ \A mes \in DOMAIN Dividendos :
               /\ DOMAIN Dividendos[mes] = Pagadores(mes) \cup {"Total"}
               /\ \A n \in Pagadores(mes) :
                      Dividendos[mes][n] = invs[n].historico[mes].valor_juros_pagos
               /\ Dividendos[mes]["Total"] = SomaDosPagos(mes, Pagadores(mes))
        /\ carteira.resultado.total_dividendos = SomaDosMeses(DOMAIN Linhas)

\* a run with a month in which both instruments pay, a month in which one
\* pays alone, and a month without any payout
C23_Witness ==
    /\ ult.op = "simular"
    /\ \E mes \in DOMAIN Linhas : Pagadores(mes) = {"A", "B"}
    /\ \E mes \in DOMAIN Linhas : Pagadores(mes) = {"B"}
    /\ \E mes \in DOMAIN Linhas : Pagadores(mes) = {}

(***************************************************************************)
\* the months of the window of the last call
MesesDaJanela ==
    {MesesDoIntervalo(ult.d0, ult.d1)[k] : k \in DOMAIN MesesDoIntervalo(ult.d0, ult.d1)}

\* instrument o was called for month mes by the last run
FoiChamado(o, mes) == \E i \in ChamadasDe(o) : ult.eventos[i].mes = mes

\* C24: Carteira.simular never aborts because the monthly valuation of one
\* instrument fails: the cell of the failing instrument is undefined for
\* that month, the other instruments of the month are still valuated and
\* summed, and every month of the window appears in the result.
C24_FalhaNaoAbortaASimulacao ==
    ult.op = "simular" =>
        /\ ~ult.erro
        /\ ~carteira.resultado.nulo
        /\ MesesDaJanela \subseteq DOMAIN Linhas
        /\ \A mes \in DOMAIN Linhas, n \in NomesDaCarteira :
               ValuacaoFalha(n, mes) =>
                   /\ Linhas[mes][n] = NaN
                   /\ \A o \in NomesDaCarteira \ {n} :
                          (DataLE(invs[o].data_inicio, mes) /\ ~ValuacaoFalha(o, mes))
                              => /\ FoiChamado(o, mes)
                                 /\ Linhas[mes][o]
                                      = Celula(invs[o].historico[mes].valor)
                   /\ Linhas[mes]["Total"]
                        = Celula(SomaDe(Linhas[mes],
                                        {o \in NomesDaCarteira : Linhas[mes][o] # NaN}))

\* a run of three months or more in which the valuation of A failed in two
\* months while B, valuated after it, was worth something in both
C24_Witness ==
    /\ ult.op = "simular"
    /\ Cardinality(DOMAIN Linhas) >= 3
    /\ \E m1, m2 \in DOMAIN Linhas :
           /\ DataLT(m1, m2)
           /\ ValuacaoFalha("A", m1) /\ ValuacaoFalha("A", m2)
           /\ Linhas[m1]["B"] # NaN /\ Linhas[m1]["Total"][1] > 0
           /\ Linhas[m2]["B"] # NaN /\ Linhas[m2]["Total"][1] > 0

(***************************************************************************)
\* the coupon-month argument is a pair of months of 1..12 that differ by 6
ParDeMesesValido(m) ==
    /\ Len(m) = 2
    /\ m[1] \in 1 .. 12 /\ m[2] \in 1 .. 12
    /\ (m[1] - m[2] = 6 \/ m[2] - m[1] = 6)

\* the object the variable holds has the configuration cfg and no history
ConstruidoDe(inv, cfg) ==
    /\ inv.nome = cfg.nome /\ inv.valor_principal = cfg.valor_principal
    /\ inv.data_inicio = cfg.data_inicio /\ inv.data_fim = cfg.data_fim
    /\ inv.taxa = cfg.taxa /\ inv.operador = cfg.operador
    /\ inv.indexador = cfg.indexador
    /\ inv.juros_semestrais = cfg.juros_semestrais
    /\ inv.meses_pagamento_juros = cfg.meses_pagamento_juros
    /\ inv.historico = DictVazio

\* C25: constructing an instrument fails, and no instrument is created,
\* when start >= maturity, when the coupon-month argument does not have
\* exactly two months, when the two months do not differ by exactly 6, or
\* when either month is outside 1..12; every pair of months of 1..12 that
\* differ by exactly 6 is accepted.
C25_ValidacaoDoConstrutor ==
    [][ult'.op = "Investimento" =>
          /\ (~DataLT(ult'.d0, ult'.d1)
                  \/ ~ParDeMesesValido(ult'.retorno.meses_pagamento_juros))
                => (ult'.erro /\ invs' = invs)
          /\ (/\ DataLT(ult'.d0, ult'.d1)
              /\ ParDeMesesValido(ult'.retorno.meses_pagamento_juros)
              /\ ult'.retorno.indexador = "PREFIXADO"
              /\ ult'.retorno.operador = SemValor)
                => (/\ ~ult'.erro
                    /\ ConstruidoDe(invs'[ult'.nome], ult'.retorno))]_vars

\* a construction was rejected for a month outside 1..12 alone, after one
\* that was accepted with the months (12, 6)
C25_Witness ==
    /\ ult.op = "Investimento"
    /\ ult.erro
    /\ DataLT(ult.d0, ult.d1)
    /\ ult.retorno.meses_pagamento_juros = <<13, 7>>
    /\ "A" \in DOMAIN invs
    /\ invs["A"].meses_pagamento_juros = <<12, 6>>

(***************************************************************************)
\* an indexation kind is given: an index name other than the fixed-rate one
TemIndexador(c) == c.indexador # SemValor /\ c.indexador # "PREFIXADO"

\* C26: constructing an instrument fails when an indexation kind is given
\* with a nonzero rate and no combination operator, and when a combination
\* operator is given with a zero rate; so every constructed instrument with
\* an indexation kind and a rate has an operator, and every one with an
\* operator has a rate.
C26_TaxaEOperador ==
    /\ ult.op = "Investimento" =>
           /\ (TemIndexador(ult.retorno) /\ ult.retorno.taxa # 0
                   /\ ult.retorno.operador = SemValor) => ult.erro
           /\ (ult.retorno.operador # SemValor /\ ult.retorno.taxa = 0) => ult.erro
    /\ \A n \in DOMAIN invs :
           /\ (TemIndexador(invs[n]) /\ invs[n].taxa # 0) => invs[n].operador # SemValor
           /\ invs[n].operador # SemValor => invs[n].taxa # 0

(***************************************************************************)
\* the index value of date d under the mapping f: its entry, or the default
\* of 0.4% a month
IndiceSob(f, d) == IF d \in DOMAIN f THEN f[d] ELSE ipca_padrao_mensal

\* C27: for an inflation-linked instrument the index value of a date is
\* the entry of the current override mapping when the date is one of its
\* keys and the per-instance default monthly rate otherwise; after
\* definir_fonte_ipca(m) only m is consulted, whether the index is asked
\* for or a month is valuated.
C27_FonteDoIndice ==
    [][/\ ult'.op = "definir_fonte_ipca"
             => invs'[ult'.nome].fonte_ipca = ult'.retorno
       /\ ult'.op = "obter_valor_indexador"
             => ult'.retorno = IndiceSob(invs[ult'.nome].fonte_ipca, ult'.d0)
       /\ (ult'.op = "simular_mes" /\ ~ult'.erro)
             => /\ invs'[ult'.nome].fonte_ipca = invs[ult'.nome].fonte_ipca
                /\ invs'[ult'.nome].historico[ult'.d0].indexador
                     = Algum(IndiceSob(invs[ult'.nome].fonte_ipca, ult'.d0))]_vars

\* the index of December 2023 was read as the default after the mapping
\* that had an entry for it was replaced by one that has none
C27_Witness ==
    /\ ult.op = "obter_valor_indexador"
    /\ nops = 2
    /\ ult.d0 = Date(2023, 12, 1)
    /\ ult.retorno = ipca_padrao_mensal
    /\ DOMAIN invs["A"].fonte_ipca = {Date(2024, 1, 1)}

(***************************************************************************)
\* the two objects have the same configuration
MesmaConfiguracao(a, b) ==
    /\ a.classe = b.classe /\ a.indexador = b.indexador
    /\ a.nome = b.nome /\ a.valor_principal = b.valor_principal
    /\ a.data_inicio = b.data_inicio /\ a.data_fim = b.data_fim
    /\ a.taxa = b.taxa /\ a.operador = b.operador
    /\ a.juros_semestrais = b.juros_semestrais
    /\ a.meses_pagamento_juros = b.meses_pagamento_juros
    /\ a.fonte_ipca = b.fonte_ipca

\* a fresh copy of instrument inv: its configuration, nothing valuated
CopiaNova(inv) ==
    [inv EXCEPT !.historico = DictVazio, !.juros_acumulados = 0,
                !.ultimo_pagamento_juros = Nenhum,
                !.valor_corrigido = inv.valor_principal,
                !.principal_inflacionado = inv.valor_principal,
                !.leituras = {}]

\* the table fresh copies of the portfolio's instruments give over the
\* window of the motor
TabelaDasCopiasNovas ==
    ToDataframe([resultado |->
        CarteiraSimular(carteira.investimentos,
                        [n \in DOMAIN invs |-> CopiaNova(invs[n])],
                        motor.config.data_inicio, motor.config.data_fim).resultado])

\* C28: every instrument of the portfolio clone used for scenario runs has
\* the configuration of its original (kind, name, principal, start,
\* maturity, rate, operator, semiannual flag, coupon months, index override
\* mapping); so the clone simulated under a scenario that injects no
\* override ("base") yields the trajectory of a fresh copy of the original.
C28_CloneComAMesmaConfiguracao ==
    /\ ult.op \in {"simular_multiplos_cenarios", "simular_cenario"}
           => \A n \in DOMAIN invs :
                  MesmaConfiguracao(
                      CopiarCarteira(Memoria(invs, carteira)).objs[Ref("copia", n)],
                      invs[n])
    /\ (ult.op = "simular_multiplos_cenarios" /\ "base" \in DOMAIN ult.retorno)
           => ult.retorno["base"] = TabelaDasCopiasNovas

(***************************************************************************)
\* the stored months of instrument n whose calendar month is a configured
\* coupon month and that are not the maturity month, when n pays
\* semiannual coupons
CuponsIntermediarios(n) ==
    IF invs[n].juros_semestrais
    THEN {d \in DOMAIN invs[n].historico :
             EhMesConfigurado(invs[n], d) /\ ~EhVencimento(invs[n], d)}
    ELSE {}

\* the snapshot r is the one an interim coupon leaves: nothing accrued and
\* unpaid, and the running value back at the principal track
SnapshotAposCupom(inv, r) ==
    /\ r.juros_acumulados = 0
    /\ r.valor = IF EhIPCAAditivo(inv) THEN r.valor_corrigido
                 ELSE inv.valor_principal

\* d is the last month the last call valuated for n in which a coupon was
\* paid or a configured coupon month was met
UltimoMesDeCupomDaChamada(n, d) ==
    /\ d \in MesesValuados(n)
    /\ \A e \in MesesValuados(n) :
           (DataLT(d, e) /\ e \in DOMAIN invs[n].historico)
               => ~invs[n].historico[e].juros_pagos

\* C29 as stated: in every interim coupon month of a semiannual instrument
\* the stored snapshot has no unpaid accrued interest and a running value
\* equal to the corrected principal (inflation-linked additive) or to the
\* original principal (other kinds), and once the call that valuated the
\* month returns, ultimo_pagamento_juros is that month.
C29_SnapshotDoCupomIntermediario ==
    \A n \in DOMAIN invs :
        \A d \in CuponsIntermediarios(n) :
            /\ SnapshotAposCupom(invs[n], invs[n].historico[d])
            /\ UltimoMesDeCupomDaChamada(n, d)
                   => invs[n].ultimo_pagamento_juros = d

\* C29: the same in every interim coupon month after the instrument's
\* start date; the start date pays no coupon and leaves
\* ultimo_pagamento_juros as it was.
C29_SnapshotDoCupomAposInicio ==
    \A n \in DOMAIN invs :
        \A d \in CuponsIntermediarios(n) :
            d # invs[n].data_inicio =>
                /\ SnapshotAposCupom(invs[n], invs[n].historico[d])
                /\ UltimoMesDeCupomDaChamada(n, d)
                       => invs[n].ultimo_pagamento_juros = d

\* the last call paid an interim coupon after months of accrual, on a
\* corrected principal that inflation had raised above the principal
C29_Witness ==
    /\ ult.op \in {"simular_mes", "simular_periodo"}
    /\ \E d \in CuponsIntermediarios("A") :
           /\ d # invs["A"].data_inicio
           /\ UltimoMesDeCupomDaChamada("A", d)
           /\ invs["A"].historico[d].juros_pagos
           /\ invs["A"].historico[d].juros > 0
           /\ invs["A"].historico[d].valor_corrigido > invs["A"].valor_principal
           /\ invs["A"].ultimo_pagamento_juros = d

(***************************************************************************)
\* the months of the last call, when it was the first operation on a fresh
\* instrument n and valuated month by month with simular_periodo
MesesMesAMes(n) ==
    IF nops = 1 /\ ult.op = "simular_periodo" /\ ult.nome = n /\ ~ult.erro
    THEN Investimento_gerar_meses(ult.d0, ult.d1)
    ELSE <<>>

\* the stored month that precedes d in the history of inv
MesAnterior(inv, d) == MaxData({e \in DOMAIN inv.historico : DataLT(e, d)})

\* the snapshot of the accruing month d carries the corrected principal of
\* the snapshot before it, raised by the index of d
CorrigidoPeloIndice(inv, d) ==
    inv.historico[d].valor_corrigido
        = (inv.historico[MesAnterior(inv, d)].valor_corrigido
              * (Escala + ObterValorIndexador(inv, d))) \div Escala

\* C30: every stored snapshot of an instrument that is not inflation-linked
\* additive has valor_corrigido equal to valor_principal; an inflation-linked
\* additive instrument valuated month by month has, in every month after
\* its start date, the first one valuated included, the corrected principal
\* of the month before times (1 + the month's index).
C30_PrincipalCorrigido ==
    \A n \in DOMAIN invs :
        /\ ~EhIPCAAditivo(invs[n]) =>
               \A d \in DOMAIN invs[n].historico :
                   invs[n].historico[d].valor_corrigido = invs[n].valor_principal
        /\ EhIPCAAditivo(invs[n]) =>
               \A k \in DOMAIN MesesMesAMes(n) :
                   DataLT(invs[n].data_inicio, MesesMesAMes(n)[k])
                       => CorrigidoPeloIndice(invs[n], MesesMesAMes(n)[k])

(***************************************************************************)
\* the monthly equivalent of the annual fixed rate of inv
TaxaFixaMensal(inv) == MathPowMensal(Escala + inv.taxa \div 100)

\* the interest the snapshot of month d should carry on a base of `base`
JurosSobre(inv, base) == (base * TaxaFixaMensal(inv)) \div Escala

\* C31: a fixed-rate instrument valuated month by month has, in every month
\* after its start date, interest = valor_principal x monthly rate when
\* semiannual coupons are enabled and interest = previous month's value x
\* monthly rate when they are disabled.
C31_JurosDoPrefixado ==
    \A n \in DOMAIN invs :
        invs[n].indexador = "PREFIXADO" =>
            \A k \in DOMAIN MesesMesAMes(n) :
                LET d == MesesMesAMes(n)[k]
                IN  DataLT(invs[n].data_inicio, d) =>
                        invs[n].historico[d].juros =
                            IF invs[n].juros_semestrais
                            THEN JurosSobre(invs[n], invs[n].valor_principal)
                            ELSE JurosSobre(invs[n],
                                     invs[n].historico[MesAnterior(invs[n], d)].valor)

(***************************************************************************)
\* the first day of the calendar month before d
MesCivilAnterior(d) ==
    IF d[2] = 1 THEN Date(d[1] - 1, 12, 1) ELSE Date(d[1], d[2] - 1, 1)

\* the step is a direct call simular_mes(d) that returns normally, with d
\* after the start date, neither a coupon month nor the maturity month, on
\* an instrument whose latest snapshot is the one of the month before d
PassoDeAcumulacao ==
    /\ ult'.op = "simular_mes" /\ ~ult'.erro
    /\ LET inv == invs[ult'.nome]
           d == ult'.d0
       IN  /\ DataLT(inv.data_inicio, d)
           /\ ~EhVencimento(inv, d)
           /\ ~(inv.juros_semestrais /\ EhMesConfigurado(inv, d))
           /\ DOMAIN inv.historico # {}
           /\ MaxData(DOMAIN inv.historico) = MesCivilAnterior(d)

\* the snapshot r of the month after snapshot p reinvests the month's
\* interest; kinds that are neither fixed-rate nor inflation-linked earn the
\* month's rate on the value of p
AcumulaSobre(inv, p, r) ==
    /\ r.valor = p.valor + r.juros
    /\ r.juros_acumulados = p.juros_acumulados + r.juros
    /\ (inv.indexador # "PREFIXADO" /\ ~EhIPCAAditivo(inv))
           => r.juros = (p.valor * r.taxa_mensal) \div Escala

\* C32: in every accruing month that is neither a coupon month nor the
\* maturity month the stored value is the previous month's value plus the
\* month's interest and the stored juros_acumulados is the previous month's
\* plus the month's interest; for kinds that are neither fixed-rate nor
\* inflation-linked the month's interest is the previous value times the
\* month's rate.
C32_AcumulacaoMensal ==
    [][PassoDeAcumulacao =>
          LET n == ult'.nome
              d == ult'.d0
          IN  AcumulaSobre(invs[n],
                           invs[n].historico[MesCivilAnterior(d)],
                           invs'[n].historico[d])]_vars

(***************************************************************************)
\* the step is a direct call simular_mes(d) with d after the start date
PassoDepoisDoInicio ==
    /\ ult'.op = "simular_mes"
    /\ DataLT(invs[ult'.nome].data_inicio, ult'.d0)

\* r is an inception snapshot: the principal, no interest, no rate, nothing
\* paid
EhSnapshotInicial(inv, r) ==
    /\ r.data = inv.data_inicio
    /\ r.valor = inv.valor_principal
    /\ r.juros = 0 /\ r.juros_acumulados = 0 /\ r.taxa_mensal = 0
    /\ ~r.juros_pagos /\ r.valor_juros_pagos = 0

TaxaRealMensal(inv) ==
    IF inv.classe = "InvestimentoIPCA" THEN MathPowMensal(Escala + inv.taxa)
    ELSE MathPowMensal(Escala + inv.taxa \div 100)

\* (1 + inflacao) x (1 + real) - 1
TaxaComposta(inflacao, real) ==
    ((Escala + inflacao) * (Escala + real)) \div Escala - Escala

\* C34: the monthly rate of an inflation-linked additive instrument for a
\* date is (1 + monthly index of the date) x (1 + monthly real rate) - 1,
\* in the base class and in InvestimentoIPCA.
C34_TaxaMensalIPCA ==
    ult.op = "obter_taxa_mensal" =>
        ult.retorno =
            TaxaComposta(ObterValorIndexador(invs[ult.nome], ult.d0),
                         TaxaRealMensal(invs[ult.nome]))

(***************************************************************************)
\* the step adds or removes an instrument
PassoDeEdicao ==
    ult'.op \in {"adicionar_investimento", "remover_investimento"}

\* the months readable through valor_total
MesesLegiveis(cart) ==
    IF cart.resultado.nulo THEN {}
    ELSE {d \in DatasConsulta \ {Nenhum} : ~ValorTotal(cart, d).erro}

\* C35: the result stored by simular keeps its own instrument mapping, and
\* the portfolio holds the result of the latest simular only: adding or
\* removing an instrument leaves the stored result (mapping, monthly table,
\* totals) as it was, and a simular stores the result of its own window
\* with the mapping of the moment of the call, so that valor_total reads
\* the months of that window and no month of an earlier one.
C35_ResultadoDaUltimaSimulacao ==
    [][/\ PassoDeEdicao => carteira'.resultado = carteira.resultado
       /\ ult'.op = "simular" =>
              /\ carteira'.resultado.investimentos = carteira.investimentos
              /\ carteira'.resultado =
                     CarteiraSimular(carteira.investimentos, invs,
                                     ult'.d0, ult'.d1).resultado
              /\ DOMAIN carteira'.resultado.resultado_consolidado
                     = {ult'.meses[k] : k \in DOMAIN ult'.meses}
              /\ MesesLegiveis(carteira')
                     = {ult'.meses[k] : k \in DOMAIN ult'.meses}
                           \cap DatasConsulta]_vars

\* an instrument was added to a portfolio that had been simulated: the
\* mapping of the stored result is no longer the mapping of the portfolio
C35_Witness ==
    /\ ult.op = "adicionar_investimento" /\ ~ult.erro
    /\ ~carteira.resultado.nulo
    /\ carteira.resultado.investimentos # carteira.investimentos
    /\ Len(carteira.resultado.investimentos) > 0
    /\ MesesLegiveis(carteira) # {}

(***************************************************************************)
\* the stored months of inv in which it was paid out at maturity: the
\* maturity month, with a payout and running value 0
MesesDeResgate(inv) ==
    {d \in DOMAIN inv.historico :
        /\ EhVencimento(inv, d)
        /\ inv.historico[d].juros_pagos
        /\ inv.historico[d].valor = 0}

\* C36: once an instrument has been paid out at maturity, every later month
\* stored for it has value 0, no coupon paid and payout 0.
C36_VencidoNaoVoltaAValer ==
    \A n \in DOMAIN invs :
        \A v \in MesesDeResgate(invs[n]) :
            \A d \in DOMAIN invs[n].historico :
                DataLT(v, d) =>
                    /\ invs[n].historico[d].valor = 0
                    /\ ~invs[n].historico[d].juros_pagos
                    /\ invs[n].historico[d].valor_juros_pagos = 0

(***************************************************************************)
\* the step is a simular over the window of the simular just before it
PassoDeRepeticao ==
    /\ ult.op = "simular" /\ ult'.op = "simular"
    /\ ult'.d0 = ult.d0 /\ ult'.d1 = ult.d1

\* C37: simular(start, end) called twice in a row on the same portfolio
\* produces the second time the monthly table, the totals and the coupon
\* sub-table of the first time.
C37_SimularRepetivel ==
    [][PassoDeRepeticao =>
          /\ carteira'.resultado.resultado_mensal = carteira.resultado.resultado_mensal
          /\ carteira'.resultado.resultado_consolidado
                 = carteira.resultado.resultado_consolidado
          /\ carteira'.resultado.dividendos_recebidos
                 = carteira.resultado.dividendos_recebidos
          /\ carteira'.resultado.total_dividendos
                 = carteira.resultado.total_dividendos]_vars

(***************************************************************************)
\* the step is a direct call simular_mes(d) that returns normally and pays a
\* coupon or the maturity payout, on an instrument whose latest snapshot is
\* the one of the month before d
PassoDePagamento ==
    /\ ult'.op = "simular_mes" /\ ~ult'.erro
    /\ LET inv == invs[ult'.nome]
           d == ult'.d0
       IN  /\ DOMAIN inv.historico # {}
           /\ MaxData(DOMAIN inv.historico) = MesCivilAnterior(d)
           /\ invs'[ult'.nome].historico[d].juros_pagos

\* C38: in every month with a payout the stored value after the payout plus
\* the amount paid equals the value before it, the previous month's value
\* plus the month's interest, whatever the kind of the instrument.
C38_PagamentoConservaOValor ==
    [][PassoDePagamento =>
          LET n == ult'.nome
              d == ult'.d0
              r == invs'[n].historico[d]
          IN  r.valor + r.valor_juros_pagos
                  = invs[n].historico[MesCivilAnterior(d)].valor + r.juros]_vars

(***************************************************************************)
\* the instruments as they were when the motor was built: no history and
\* no index source
InstrumentosDoInicio ==
    [n \in DOMAIN invs |-> [CopiaNova(invs[n]) EXCEPT !.fonte_ipca = DictVazio]]

\* the table motor.simular(cenario) returns when it is the first call
TabelaDoCenarioPrimeiro(cenario) ==
    ToDataframe(
        MotorSimular(Memoria(InstrumentosDoInicio,
                             [investimentos |-> carteira.investimentos,
                              resultado |-> SemResultado]),
                     "original", motor.config, cenario).carteiras["original"])

\* C39: the table MotorSimulacao.simular(name) returns depends on the
\* portfolio configuration and on the override maps of the named scenario
\* only: whatever scenarios were run before, it is the table the call
\* returns when it is the first one.
C39_CenarioIndependenteDosAnteriores ==
    ult.op = "motor_simular" => ult.retorno = TabelaDoCenarioPrimeiro(ult.nome)

====
